---- MODULE Spec2Model ----
(***************************************************************************)
(* Tool-calling orchestration engine of agentbuilder-backend:              *)
(*   - AgentController.chat        (the bounded two-completion chat turn)  *)
(*   - ActionExecutorService       (validate, build, HTTP with one retry)  *)
(*   - LLMService                  (system instruction, tool-call parsing) *)
(*   - AgentController bindings    (addAction, removeAction, the catalog)  *)
(*   - KBController, KBService     (upload, ingestion run, search, delete) *)
(*   - EmbeddingsService           (vendor call, mock fallback)            *)
(*   - VectorService               (Pinecone and PostgreSQL backends)      *)
(* Strings are TLA+ strings; templates are scanned character by character. *)
(***************************************************************************)
EXTENDS Integers, Sequences, FiniteSets, TLC

(***************************************************************************)
(* JavaScript values.  A value is a record [kind, val]: kind is the JSON   *)
(* kind (or "undefined" for an absent property), val its string form.      *)
(***************************************************************************)
Undef == [kind |-> "undefined", val |-> ""]
JNull == [kind |-> "null", val |-> ""]
JStr(s) == [kind |-> "string", val |-> s]
JNum(s) == [kind |-> "number", val |-> s]
JBool(s) == [kind |-> "boolean", val |-> s]
JObj == [kind |-> "object", val |-> "[object Object]"]
JArr == [kind |-> "array", val |-> "1,2"]

\* typeof value
TypeOf(v) ==
    CASE v.kind = "undefined" -> "undefined"
      [] v.kind \in {"null", "object", "array"} -> "object"
      [] OTHER -> v.kind

\* Array.isArray(value)
IsArray(v) == v.kind = "array"

\* JavaScript truthiness of a value (used by `a && b` and `if (x)`)
Truthy(v) ==
    \/ v.kind \in {"object", "array"}
    \/ v.kind = "string" /\ v.val # ""
    \/ v.kind = "number" /\ v.val \notin {"0", "NaN"}
    \/ v.kind = "boolean" /\ v.val = "true"

(***************************************************************************)
(* Input maps.  `inputs` is what the caller hands to execute: a JSON       *)
(* object (fields maps every property name to its value, Undef when the    *)
(* property is absent), or null / undefined / a primitive.                 *)
(***************************************************************************)
FieldNames == {"city", "count", "API_TOKEN"}

NoFields == [f \in FieldNames |-> Undef]
InObj(fields) == [kind |-> "object", val |-> "[object Object]", fields |-> fields]
InNull == [kind |-> "null", val |-> "", fields |-> NoFields]
InUndef == [kind |-> "undefined", val |-> "", fields |-> NoFields]
InStr == [kind |-> "string", val |-> "Paris", fields |-> NoFields]

\* inputs[name]: a property read throws a TypeError on null and undefined
CanIndex(inputs) == inputs.kind \notin {"null", "undefined"}
Prop(inputs, name) == IF name \in FieldNames THEN inputs.fields[name] ELSE Undef

(***************************************************************************)
(* validateInputs (action-executor.service).  Returns the thrown error, or *)
(* NoError when the loop ends without throwing.                            *)
(***************************************************************************)
NoError == [msg |-> "", arg |-> "", status |-> 0]
Err(msg, arg) == [msg |-> msg, arg |-> arg, status |-> 0]

\* One iteration of the loop, with the Array.isArray test of the object
\* check left out (a list then passes for a declared object).
CheckVariableArrayAsObject(variable, value) ==
    LET actualType == TypeOf(value)
        expectedType == variable.type
    IN  IF value.kind \in {"undefined", "null"}
          THEN Err("Missing required variable", variable.name)
        ELSE IF expectedType = "number" /\ actualType # "number"
          THEN Err("must be a number", variable.name)
        ELSE IF expectedType = "boolean" /\ actualType # "boolean"
          THEN Err("must be a boolean", variable.name)
        ELSE IF expectedType = "string" /\ actualType # "string"
          THEN Err("must be a string", variable.name)
        ELSE IF expectedType = "object" /\ actualType # "object"
          THEN Err("must be an object", variable.name)
        ELSE IF expectedType = "array" /\ ~IsArray(value)
          THEN Err("must be an array", variable.name)
        ELSE NoError

CheckVariable(variable, value) ==
    LET actualType == TypeOf(value)
        expectedType == variable.type
    IN  IF value.kind \in {"undefined", "null"}
          THEN Err("Missing required variable", variable.name)
        ELSE IF expectedType = "number" /\ actualType # "number"
          THEN Err("must be a number", variable.name)
        ELSE IF expectedType = "boolean" /\ actualType # "boolean"
          THEN Err("must be a boolean", variable.name)
        ELSE IF expectedType = "string" /\ actualType # "string"
          THEN Err("must be a string", variable.name)
        ELSE IF expectedType = "object" /\ (actualType # "object" \/ IsArray(value))
          THEN Err("must be an object", variable.name)
        ELSE IF expectedType = "array" /\ ~IsArray(value)
          THEN Err("must be an array", variable.name)
        ELSE NoError

RECURSIVE validateInputs(_, _)
validateInputs(variables, inputs) ==
    IF variables = <<>> THEN NoError
    ELSE IF ~CanIndex(inputs) THEN Err("TypeError: Cannot read properties", inputs.kind)
    ELSE LET e == CheckVariable(Head(variables), Prop(inputs, Head(variables).name))
         IN  IF e # NoError THEN e ELSE validateInputs(Tail(variables), inputs)

(***************************************************************************)
(* Strings, scanned by position.                                           *)
(***************************************************************************)
CharAt(s, i) == SubSeq(s, i, i)

\* s.indexOf(pat, from) with 1-based positions; 0 when there is none
RECURSIVE IndexOf(_, _, _)
IndexOf(s, pat, from) ==
    IF from + Len(pat) - 1 > Len(s) THEN 0
    ELSE IF SubSeq(s, from, from + Len(pat) - 1) = pat THEN from
    ELSE IndexOf(s, pat, from + 1)

UpperSnakeChars ==
    {"A", "B", "C", "D", "E", "F", "G", "H", "I", "J", "K", "L", "M", "N",
     "O", "P", "Q", "R", "S", "T", "U", "V", "W", "X", "Y", "Z", "_"}

\* template.match(/^{{([A-Z_]+)}}$/): the captured name, or "" for no match
secretMatch(template) ==
    LET n == Len(template)
        name == SubSeq(template, 3, n - 2)
    IN  IF /\ n >= 5
           /\ SubSeq(template, 1, 2) = "{{"
           /\ SubSeq(template, n - 1, n) = "}}"
           /\ \A i \in 1..Len(name) : CharAt(name, i) \in UpperSnakeChars
        THEN name
        ELSE ""

\* String(value) as Mustache prints it: null and undefined print as nothing
ToText(v) == IF v.kind \in {"undefined", "null"} THEN "" ELSE v.val

\* Mustache's HTML escape of one character
EscapeChar(c) ==
    CASE c = "&" -> "&amp;"
      [] c = "<" -> "&lt;"
      [] c = ">" -> "&gt;"
      [] c = "/" -> "&#x2F;"
      [] c = "=" -> "&#x3D;"
      [] OTHER -> c

RECURSIVE escapeHtml(_)
escapeHtml(s) ==
    IF s = "" THEN "" ELSE EscapeChar(CharAt(s, 1)) \o escapeHtml(SubSeq(s, 2, Len(s)))

RECURSIVE Trim(_)
Trim(s) ==
    IF s = "" THEN s
    ELSE IF CharAt(s, 1) = " " THEN Trim(SubSeq(s, 2, Len(s)))
    ELSE IF CharAt(s, Len(s)) = " " THEN Trim(SubSeq(s, 1, Len(s) - 1))
    ELSE s

(***************************************************************************)
(* Mustache.render(template, inputs) for templates of text and {{name}}    *)
(* tags.  The result is [ok, out]: ok = FALSE when render throws (a tag    *)
(* that is never closed, or a tag looked up in a null/undefined view).     *)
(***************************************************************************)
Rendered(out) == [ok |-> TRUE, out |-> out]
RenderThrows(msg) == [ok |-> FALSE, out |-> msg]

\* Leaves a tag in place when the view has no value for it.
RECURSIVE MustacheRenderKnown(_, _)
MustacheRenderKnown(template, inputs) ==
    LET open == IndexOf(template, "{{", 1)
    IN  IF open = 0 THEN Rendered(template)
        ELSE LET close == IndexOf(template, "}}", open + 2)
             IN  IF close = 0 THEN RenderThrows("Unclosed tag")
                 ELSE IF ~CanIndex(inputs) THEN RenderThrows("TypeError: Cannot read properties")
                 ELSE LET name == Trim(SubSeq(template, open + 2, close - 1))
                          rest == MustacheRenderKnown(SubSeq(template, close + 2, Len(template)), inputs)
                      IN  IF ~rest.ok THEN rest
                          ELSE Rendered(SubSeq(template, 1, open - 1)
                                        \o (IF Prop(inputs, name).kind = "undefined"
                                            THEN SubSeq(template, open, close + 1)
                                            ELSE escapeHtml(ToText(Prop(inputs, name))))
                                        \o rest.out)

RECURSIVE MustacheRender(_, _)
MustacheRender(template, inputs) ==
    LET open == IndexOf(template, "{{", 1)
    IN  IF open = 0 THEN Rendered(template)
        ELSE LET close == IndexOf(template, "}}", open + 2)
             IN  IF close = 0 THEN RenderThrows("Unclosed tag")
                 ELSE IF ~CanIndex(inputs) THEN RenderThrows("TypeError: Cannot read properties")
                 ELSE LET name == Trim(SubSeq(template, open + 2, close - 1))
                          rest == MustacheRender(SubSeq(template, close + 2, Len(template)), inputs)
                      IN  IF ~rest.ok THEN rest
                          ELSE Rendered(SubSeq(template, 1, open - 1)
                                        \o escapeHtml(ToText(Prop(inputs, name)))
                                        \o rest.out)

(***************************************************************************)
(* resolveValue (action-executor.service).  secrets and env map a name to  *)
(* its value; AbsentValue stands for "no row" / "variable not set".        *)
(* decrypt is the inverse of the encryption the secret was stored with.    *)
(* The result is [ok, out, looked]: looked = the secret-store lookups made.*)
(***************************************************************************)
AbsentValue == "<absent>"

encrypt(plain) == "enc:" \o plain
decrypt(cipher) == SubSeq(cipher, 5, Len(cipher))

\* the value the stored secrets have at first
SecretValue == "s3cr3t-token-value"

\* Answers a secret reference from the value it had at first, without a lookup.
resolveValueStale(template, inputs, secretRows, envVars) ==
    LET secretName == secretMatch(template)
    IN  IF secretName # ""
        THEN [ok |-> TRUE, out |-> SecretValue, arg |-> "", looked |-> <<>>]
        ELSE LET r == MustacheRender(template, inputs)
             IN  [ok |-> r.ok, out |-> r.out, arg |-> "", looked |-> <<>>]

\* Consults the environment before the secret store.
resolveValueEnvFirst(template, inputs, secretRows, envVars) ==
    LET secretName == secretMatch(template)
    IN  IF secretName # ""
        THEN IF envVars[secretName] \notin {AbsentValue, ""}
               THEN [ok |-> TRUE, out |-> envVars[secretName], arg |-> "",
                     looked |-> <<secretName>>]
             ELSE IF secretRows[secretName] # AbsentValue
               THEN [ok |-> TRUE, out |-> decrypt(secretRows[secretName]), arg |-> "",
                     looked |-> <<secretName>>]
             ELSE [ok |-> FALSE, out |-> "Secret not found", arg |-> secretName,
                   looked |-> <<secretName>>]
        ELSE LET r == MustacheRender(template, inputs)
             IN  [ok |-> r.ok, out |-> r.out, arg |-> "", looked |-> <<>>]

\* Sends an empty value for a secret that is in neither place.
resolveValueLenient(template, inputs, secretRows, envVars) ==
    LET secretName == secretMatch(template)
    IN  IF secretName # ""
        THEN IF secretRows[secretName] # AbsentValue
               THEN [ok |-> TRUE, out |-> decrypt(secretRows[secretName]), arg |-> "",
                     looked |-> <<secretName>>]
             ELSE IF envVars[secretName] \notin {AbsentValue, ""}
               THEN [ok |-> TRUE, out |-> envVars[secretName], arg |-> "",
                     looked |-> <<secretName>>]
             ELSE [ok |-> TRUE, out |-> "", arg |-> "", looked |-> <<secretName>>]
        ELSE LET r == MustacheRender(template, inputs)
             IN  [ok |-> r.ok, out |-> r.out, arg |-> "", looked |-> <<>>]

resolveValue(template, inputs, secretRows, envVars) ==
    LET secretName == secretMatch(template)
    IN  IF secretName # ""
        THEN IF secretRows[secretName] # AbsentValue
               THEN [ok |-> TRUE, out |-> decrypt(secretRows[secretName]), arg |-> "",
                     looked |-> <<secretName>>]
             ELSE IF envVars[secretName] \notin {AbsentValue, ""}
               THEN [ok |-> TRUE, out |-> envVars[secretName], arg |-> "",
                     looked |-> <<secretName>>]
             ELSE [ok |-> FALSE, out |-> "Secret not found", arg |-> secretName,
                   looked |-> <<secretName>>]
        ELSE LET r == MustacheRender(template, inputs)
             IN  [ok |-> r.ok, out |-> r.out, arg |-> "", looked |-> <<>>]

(***************************************************************************)
(* Stored records.  Four actions over three integrations cover every       *)
(* declared type, header and query auth entries, a secret pattern, a       *)
(* template that only contains one, and an integration with auth off.      *)
(***************************************************************************)
SecretNames == {"API_TOKEN", "DB_KEY"}
HeaderKeys == {"Accept", "Authorization", "X-Token"}
ParamKeys == {"units", "q", "key"}

NoHeaders == [k \in HeaderKeys |-> AbsentValue]
NoParams == [k \in ParamKeys |-> AbsentValue]
NoTemplate == ""

Variable(name, type) == [name |-> name, type |-> type, description |-> "d"]
AuthEntry(type, key, value) == [type |-> type, key |-> key, value |-> value]

Integrations ==
    [i1 |-> [method |-> "GET", url |-> "https://api.example.com",
             authEnabled |-> TRUE,
             authConfig |-> <<AuthEntry("header", "Authorization", "{{API_TOKEN}}")>>,
             defaultHeaders |-> [NoHeaders EXCEPT !["Accept"] = "application/json"],
             defaultParams |-> [NoParams EXCEPT !["units"] = "metric"]],
     i2 |-> [method |-> "POST", url |-> "https://x.io/{{count}}",
             authEnabled |-> TRUE,
             authConfig |-> <<AuthEntry("query", "key", "{{DB_KEY}}"),
                              AuthEntry("header", "X-Token", "Bearer {{API_TOKEN}}"),
                              AuthEntry("header", "Authorization", "{{API_TOKEN}}"),
                              AuthEntry("query", "units", "{{ API_TOKEN }}"),
                              AuthEntry("header", "Accept", "{{API_KEY_2}}")>>,
             defaultHeaders |-> NoHeaders,
             defaultParams |-> NoParams],
     i3 |-> [method |-> "GET", url |-> "https://y.io/items",
             authEnabled |-> FALSE,
             authConfig |-> <<AuthEntry("header", "Authorization", "{{API_TOKEN}}")>>,
             defaultHeaders |-> NoHeaders,
             defaultParams |-> NoParams]]

ActionIds == {"a1", "a2", "a3", "a4"}

\* prisma.action.findUnique({ include: { integration: true } }) of a stored row
ActionRow(id) ==
    CASE id = "a1" ->
           [id |-> "a1", name |-> "getWeather", descriptionForLlm |-> "Current weather",
            variables |-> <<Variable("city", "string")>>,
            urlTemplate |-> "https://api.example.com/weather?city={{city}}",
            bodyTemplate |-> NoTemplate,
            queryTemplate |-> <<>>,
            integration |-> Integrations.i1]
      [] id = "a2" ->
           [id |-> "a2", name |-> "createOrder", descriptionForLlm |-> "Create an order",
            variables |-> <<Variable("city", "object"), Variable("count", "number")>>,
            urlTemplate |-> NoTemplate,
            bodyTemplate |-> "{\"n\":{{count}}}",
            queryTemplate |-> <<<<"q", "{{ count }}">>>>,
            integration |-> Integrations.i2]
      [] id = "a3" ->
           [id |-> "a3", name |-> "listItems", descriptionForLlm |-> "List items",
            variables |-> <<Variable("city", "array"), Variable("count", "boolean")>>,
            urlTemplate |-> NoTemplate,
            bodyTemplate |-> NoTemplate,
            queryTemplate |-> <<>>,
            integration |-> Integrations.i3]
      [] OTHER ->
           [id |-> "a4", name |-> "ping", descriptionForLlm |-> "Ping",
            variables |-> <<>>,
            urlTemplate |-> "https://api.example.com/ping/{{city}}",
            bodyTemplate |-> NoTemplate,
            queryTemplate |-> <<>>,
            integration |-> Integrations.i1]

(***************************************************************************)
(* buildRequest (action-executor.service).  The result is                  *)
(* [ok, request, looked, error]: looked lists the secret-store lookups in  *)
(* the order they were made, error is what was thrown when ok = FALSE.     *)
(***************************************************************************)
\* for (const entry of authEntries) if (entry.type === type) map[entry.key] = await resolveValue(...)
RECURSIVE resolveEntries(_, _, _, _, _, _, _)
resolveEntries(entries, type, map, looked, inputs, secretRows, envVars) ==
    IF entries = <<>> THEN [ok |-> TRUE, map |-> map, looked |-> looked, error |-> NoError]
    ELSE IF Head(entries).type # type
      THEN resolveEntries(Tail(entries), type, map, looked, inputs, secretRows, envVars)
    ELSE LET r == resolveValue(Head(entries).value, inputs, secretRows, envVars)
         IN  IF ~r.ok
               THEN [ok |-> FALSE, map |-> map, looked |-> looked \o r.looked,
                     error |-> Err(r.out, r.arg)]
             ELSE resolveEntries(Tail(entries), type,
                                 [map EXCEPT ![Head(entries).key] = r.out],
                                 looked \o r.looked, inputs, secretRows, envVars)

\* for (const [key, template] of Object.entries(queryTemplateObj)) params[key] = Mustache.render(...)
RECURSIVE renderQueryTemplate(_, _, _)
renderQueryTemplate(pairs, params, inputs) ==
    IF pairs = <<>> THEN [ok |-> TRUE, map |-> params, error |-> NoError]
    ELSE LET r == MustacheRender(Head(pairs)[2], inputs)
         IN  IF ~r.ok THEN [ok |-> FALSE, map |-> params, error |-> Err(r.out, "")]
             ELSE renderQueryTemplate(Tail(pairs), [params EXCEPT ![Head(pairs)[1]] = r.out], inputs)

\* integration.method.toLowerCase()
toLowerCase(method) ==
    CASE method = "GET" -> "get"
      [] method = "POST" -> "post"
      [] method = "PUT" -> "put"
      [] method = "PATCH" -> "patch"
      [] method = "DELETE" -> "delete"
      [] OTHER -> method

\* The rendered bodies that JSON.parse accepts; any other text stays raw.
JsonTexts == {"{\"n\":42}", "{\"n\":0}"}
parseBody(bodyStr) ==
    IF bodyStr \in JsonTexts THEN [json |-> TRUE, text |-> bodyStr]
    ELSE [json |-> FALSE, text |-> bodyStr]
NoData == [json |-> FALSE, text |-> AbsentValue]

RequestTimeoutMs == 30000

NoRequest ==
    [url |-> AbsentValue, method |-> "", headers |-> NoHeaders, params |-> NoParams,
     data |-> NoData, timeout |-> 0]

BuildFailed(error, looked) ==
    [ok |-> FALSE, request |-> NoRequest, looked |-> looked, error |-> error]

buildRequest(action, inputs, secretRows, envVars) ==
    LET integration == action.integration
        url == IF action.urlTemplate # NoTemplate
               THEN MustacheRender(action.urlTemplate, inputs)
               ELSE MustacheRender(integration.url, inputs)
        useAuth == integration.authEnabled /\ integration.authConfig # <<>>
        authEntries == IF useAuth THEN integration.authConfig ELSE <<>>
        headers == resolveEntries(authEntries, "header", integration.defaultHeaders, <<>>,
                                  inputs, secretRows, envVars)
        params == renderQueryTemplate(action.queryTemplate, integration.defaultParams, inputs)
        query == resolveEntries(authEntries, "query", params.map, headers.looked,
                                inputs, secretRows, envVars)
        hasBody == action.bodyTemplate # NoTemplate
                   /\ integration.method \in {"POST", "PUT", "PATCH"}
        body == IF hasBody THEN MustacheRender(action.bodyTemplate, inputs) ELSE Rendered("")
    IN  IF ~url.ok THEN BuildFailed(Err(url.out, ""), <<>>)
        ELSE IF ~headers.ok THEN BuildFailed(headers.error, headers.looked)
        ELSE IF ~params.ok THEN BuildFailed(params.error, headers.looked)
        ELSE IF ~query.ok THEN BuildFailed(query.error, query.looked)
        ELSE IF ~body.ok THEN BuildFailed(Err(body.out, ""), query.looked)
        ELSE [ok |-> TRUE,
              request |-> [url |-> url.out,
                           method |-> toLowerCase(integration.method),
                           headers |-> headers.map,
                           params |-> query.map,
                           data |-> IF hasBody THEN parseBody(body.out) ELSE NoData,
                           timeout |-> RequestTimeoutMs],
              looked |-> query.looked,
              error |-> NoError]

(***************************************************************************)
(* maskHeaders and EncryptionService.mask.                                 *)
(***************************************************************************)
UpperLetters == "ABCDEFGHIJKLMNOPQRSTUVWXYZ"
LowerLetters == "abcdefghijklmnopqrstuvwxyz"

LowerChar(c) ==
    LET i == IndexOf(UpperLetters, c, 1) IN IF i = 0 THEN c ELSE CharAt(LowerLetters, i)

RECURSIVE LowerCase(_)
LowerCase(s) == IF s = "" THEN "" ELSE LowerChar(CharAt(s, 1)) \o LowerCase(SubSeq(s, 2, Len(s)))

Includes(s, pat) == IndexOf(s, pat, 1) # 0

\* Shows the ends of a value of six characters.
maskFromSix(secret) ==
    IF Len(secret) < 6 THEN "***"
    ELSE SubSeq(secret, 1, 3) \o "..." \o SubSeq(secret, Len(secret) - 2, Len(secret))

mask(secret) ==
    IF Len(secret) <= 6 THEN "***"
    ELSE SubSeq(secret, 1, 3) \o "..." \o SubSeq(secret, Len(secret) - 2, Len(secret))

maskHeaders(headers) ==
    [key \in DOMAIN headers |->
        IF /\ headers[key] # AbsentValue
           /\ \/ Includes(LowerCase(key), "authorization")
              \/ Includes(LowerCase(key), "api-key")
              \/ Includes(LowerCase(key), "token")
        THEN mask(headers[key])
        ELSE headers[key]]

(***************************************************************************)
(* ExecutionResult.  An optional field that is absent holds AbsentStatus,  *)
(* AbsentValue, NoError or NoRequest; hasRequest tells whether `request`   *)
(* is there.                                                               *)
(***************************************************************************)
AbsentStatus == 0

NoEcho == [url |-> AbsentValue, method |-> "", headers |-> NoHeaders, body |-> NoData]

NoResult ==
    [success |-> FALSE, status |-> AbsentStatus, data |-> AbsentValue,
     error |-> [msg |-> AbsentValue, arg |-> ""], hasRequest |-> FALSE, request |-> NoEcho]

\* return { success: false, error: 'Action not found' }
ActionNotFound ==
    [NoResult EXCEPT !.error = [msg |-> "Action not found", arg |-> ""]]

\* A catch block that drops the upstream status.
FailureResultNoStatus(error) ==
    [NoResult EXCEPT !.error = [msg |-> error.msg, arg |-> error.arg]]

\* catch (error): { success: false, error: error.message, status: error.response?.status }
FailureResult(error) ==
    [NoResult EXCEPT !.error = [msg |-> error.msg, arg |-> error.arg],
                     !.status = error.status]

\* return { success: true, status, data, request: { url, method, headers: maskHeaders(...), body } }
SuccessResult(response, request) ==
    [success |-> TRUE, status |-> response.status, data |-> response.data,
     error |-> [msg |-> AbsentValue, arg |-> ""],
     hasRequest |-> TRUE,
     request |-> [url |-> request.url, method |-> request.method,
                  headers |-> maskHeaders(request.headers), body |-> request.data]]

(***************************************************************************)
(* The HTTP transport.  axios(config) receives a response [status, data]   *)
(* or none (network error, timeout: status NoResponse).  It resolves for a *)
(* 2xx status and rejects otherwise; the rejection carries the response's  *)
(* status (error.response.status) when there was a response.               *)
(***************************************************************************)
NoResponse == 0

HttpOutcomes ==
    {[status |-> 200, data |-> "{\"temp\":21}"],
     [status |-> 204, data |-> ""],
     [status |-> 404, data |-> "not found"],
     [status |-> 500, data |-> "oops"],
     [status |-> 503, data |-> "busy"],
     [status |-> NoResponse, data |-> ""]}

axiosResolves(outcome) == outcome.status >= 200 /\ outcome.status < 300

axiosError(outcome) ==
    IF outcome.status = NoResponse
    THEN [msg |-> "Network Error", arg |-> "", status |-> AbsentStatus]
    ELSE [msg |-> "Request failed with status code", arg |-> ToString(outcome.status),
          status |-> outcome.status]

\* executeWithRetry(config, maxRetries = 1)
maxRetries == 1

\* A retry policy that also retries client errors (status >= 400).
shouldRetryClientErrors(error, attempt) ==
    error.status >= 400 /\ attempt < maxRetries

\* if (error.response?.status >= 500 && attempt < maxRetries)
shouldRetry(error, attempt) ==
    error.status >= 500 /\ attempt < maxRetries

RECURSIVE Pow2(_)
Pow2(n) == IF n = 0 THEN 1 ELSE 2 * Pow2(n - 1)

\* const delay = Math.pow(2, attempt) * 1000
backoffDelay(attempt) == Pow2(attempt) * 1000

(***************************************************************************)
(* LLMService.  A completion's text is a sequence of segments: prose, or a *)
(* fenced block with its language tag and what JSON.parse makes of its     *)
(* body (doc.kind = "malformed" when JSON.parse throws).                   *)
(***************************************************************************)
Prose(s) == [t |-> "prose", lang |-> "", s |-> s,
             doc |-> [kind |-> "none", tool |-> Undef, inputs |-> InUndef]]
Fence(lang, doc) == [t |-> "fence", lang |-> lang, s |-> "", doc |-> doc]

Malformed == [kind |-> "malformed", tool |-> Undef, inputs |-> InUndef]
DocNull == [kind |-> "null", tool |-> Undef, inputs |-> InUndef]
DocObj(tool, inputs) == [kind |-> "object", tool |-> tool, inputs |-> inputs]

NoToolCall == [present |-> FALSE, tool |-> Undef, inputs |-> InUndef]
ToolCall(tool, inputs) == [present |-> TRUE, tool |-> tool, inputs |-> inputs]

\* Takes the first fenced block of any language.
RECURSIVE firstFence(_, _)
firstFence(content, i) ==
    IF i > Len(content) THEN 0
    ELSE IF content[i].t = "fence" THEN i
    ELSE firstFence(content, i + 1)

\* content.match(/(fence)json\s*\n([\s\S]*?)\n(fence)/): index of the first json fence, 0 if none
RECURSIVE firstJsonFence(_, _)
firstJsonFence(content, i) ==
    IF i > Len(content) THEN 0
    ELSE IF content[i].t = "fence" /\ content[i].lang = "json" THEN i
    ELSE firstJsonFence(content, i + 1)

parseToolCall(content) ==
    LET jsonMatch == firstJsonFence(content, 1)
    IN  IF jsonMatch = 0 THEN NoToolCall
        ELSE LET parsed == content[jsonMatch].doc
             IN  \* JSON.parse throwing, and parsed.tool of null throwing, are caught
                 IF parsed.kind \in {"malformed", "null"} THEN NoToolCall
                 ELSE IF Truthy(parsed.tool) /\ Truthy(parsed.inputs)
                 THEN ToolCall(parsed.tool, parsed.inputs)
                 ELSE NoToolCall

\* tool.variables.map(v => `${v.name} (${v.type})`).join(', ')
RECURSIVE joinVars(_)
joinVars(variables) ==
    IF variables = <<>> THEN ""
    ELSE Head(variables).name \o " (" \o Head(variables).type \o ")"
         \o (IF Len(variables) > 1 THEN ", " ELSE "") \o joinVars(Tail(variables))

\* tools.map(tool => `- **${tool.name}**: ...\n  Variables: ${vars}`).join('\n')
RECURSIVE toolsManifest(_)
toolsManifest(tools) ==
    IF tools = <<>> THEN ""
    ELSE "- **" \o Head(tools).name \o "**: " \o Head(tools).descriptionForLlm
         \o "\n  Variables: " \o joinVars(Head(tools).variables)
         \o (IF Len(tools) > 1 THEN "\n" ELSE "") \o toolsManifest(Tail(tools))

ToolInstruction ==
    "When you decide an API call is required, output exactly one JSON object "
    \o "inside a single json code block with keys: tool, inputs."

\* messages.find(m => m.role === 'system')?.content || ''
RECURSIVE systemPromptOf(_)
systemPromptOf(messages) ==
    IF messages = <<>> THEN ""
    ELSE IF Head(messages).role = "system" THEN Head(messages).content
    ELSE systemPromptOf(Tail(messages))

buildSystemInstruction(messages, tools) ==
    IF Len(tools) = 0 THEN systemPromptOf(messages)
    ELSE systemPromptOf(messages) \o "\n\nYou have access to these actions:\n\n"
         \o toolsManifest(tools) \o "\n\n" \o ToolInstruction

(***************************************************************************)
(* State.                                                                  *)
(***************************************************************************)
VARIABLES
    actions,        \* ids of the rows of table actions
    agent_actions,  \* rows of table agent_actions: [agentId, actionId, enabled]
    secrets,        \* table secrets: name -> encryptedValue (AbsentValue: no row)
    env,            \* process.env: name -> value (AbsentValue: not set)
    req,            \* the HTTP request being served: [kind, agentId, actionId, inputs]
    cpc,            \* position of the controller that serves req
    catalog,        \* chat: `actions`, the ids of the rows loaded for this turn
    response,       \* chat: the first completion's LLMResponse
    sent,           \* what the controller answered: [status, error, message, result]
    epc,            \* position inside ActionExecutorService.execute
    eActionId,      \* execute's actionId argument
    eInputs,        \* execute's inputs argument
    eRequest,       \* the AxiosRequestConfig built by buildRequest
    attempt,        \* executeWithRetry's loop counter
    lastError,      \* the error execute or executeWithRetry holds
    eResult,        \* the ExecutionResult execute returned
    events,         \* what happened so far, in order: [e, a, n]
    llmLog,         \* the LLMService.chat calls so far: [tools, instruction, messages]
    knowledge_bases,\* table knowledge_bases: id -> row (NoKb: no row)
    stores,         \* per deployment: rows of table vector_chunks and the remote index
    usePinecone,    \* VectorService.usePinecone of the deployment that serves req
    kRun,           \* locals of the knowledge-base handler that serves req
    kRuns,          \* locals of the build-embeddings handlers that run side by side
    out             \* what the last VectorService / EmbeddingsService call gave

dbVars == <<actions, agent_actions, secrets, env>>
chatVars == <<catalog, response>>
execVars == <<epc, eActionId, eInputs, eRequest, attempt, lastError, eResult>>
kbVars == <<knowledge_bases, stores, usePinecone, kRun, kRuns, out>>
vars == <<actions, agent_actions, secrets, env, req, cpc, catalog, response, sent,
          epc, eActionId, eInputs, eRequest, attempt, lastError, eResult, events, llmLog,
          knowledge_bases, stores, usePinecone, kRun, kRuns, out>>

Event(e, a, n) == [e |-> e, a |-> a, n |-> n]

RECURSIVE secretEvents(_)
secretEvents(names) ==
    IF names = <<>> THEN <<>>
    ELSE <<Event("secret", Head(names), 0)>> \o secretEvents(Tail(names))

(***************************************************************************)
(* Stored agent, and what a request may carry.                             *)
(***************************************************************************)
AgentIds == {"ag1", "ag2"}
AgentRow(id) ==
    [id |-> id, systemPrompt |-> "You are a helpful assistant.",
     llmProvider |-> "openai", llmModel |-> "gpt-4o-mini"]

\* req.body.messages of a chat request
UserMessages == <<[role |-> "user", content |-> "What is the weather in Paris?"]>>

EnvValue == "env-tk"

\* the values an input property takes, one per runtime kind
KindValues == {Undef, JNull, JStr("Paris"), JNum("42"), JBool("true"), JObj, JArr}

InputMaps ==
    {InObj([city |-> c, count |-> n, API_TOKEN |-> t]) :
        c \in KindValues, n \in KindValues, t \in {Undef, JStr("from-inputs")}}

\* req.body.inputs of POST /actions/:id/execute
ApiInputs == InputMaps \cup {InNull, InUndef, InStr}

NoMessage ==
    [role |-> "", content |-> <<>>, hasToolCalls |-> FALSE, toolCalls |-> <<>>,
     hasToolResults |-> FALSE, toolResults |-> <<>>]
NoSent == [status |-> 0, error |-> "", message |-> NoMessage, result |-> NoResult]
NoResponseYet == [content |-> <<>>, toolCall |-> NoToolCall]

\* ids a knowledge base row may have, and "no row of that id"; the row also
\* holds `file`, the text of the file stored at filePath
KbIds == {"k1", "k2"}
NoKb == [agentId |-> "", status |-> "", chunkCount |-> 0, fileType |-> "", file |-> ""]

\* a deployment without PINECONE_API_KEY scans table vector_chunks, one with
\* the key asks the remote index
Backends == {"postgres", "pinecone"}
EmptyStore == [vector_chunks |-> <<>>, index |-> {}]

NoRun == [kbId |-> "", chunks |-> <<>>, apiKey |-> "", i |-> 0, vectorItems |-> <<>>, error |-> ""]
NoOut == [raised |-> FALSE, error |-> "", value |-> <<>>]

\* nothing uploaded, nothing indexed, no knowledge-base request in flight
InitNoKB ==
    /\ knowledge_bases = [k \in KbIds |-> NoKb]
    /\ stores = [b \in Backends |-> EmptyStore]
    /\ usePinecone = FALSE
    /\ kRun = NoRun
    /\ kRuns = <<>>
    /\ out = NoOut

InitWorld ==
    /\ actions = ActionIds
    /\ secrets \in [SecretNames -> {AbsentValue, encrypt(SecretValue)}]
    /\ env \in {[n \in SecretNames |-> IF n = "API_TOKEN" THEN v ELSE AbsentValue] :
                   v \in {AbsentValue, "", EnvValue}}

InitIdle ==
    /\ catalog = {}
    /\ response = NoResponseYet
    /\ sent = NoSent
    /\ epc = "idle"
    /\ eActionId = ""
    /\ eInputs = InUndef
    /\ eRequest = NoRequest
    /\ attempt = 0
    /\ lastError = NoError
    /\ eResult = NoResult
    /\ events = <<>>
    /\ llmLog = <<>>

\* POST /agents/:id/chat
InitChat ==
    /\ agent_actions \in {{[agentId |-> "ag1", actionId |-> a, enabled |-> TRUE] : a \in S} :
                             S \in SUBSET ActionIds}
    /\ req \in {[kind |-> "chat", agentId |-> g, actionId |-> "", inputs |-> InUndef] :
                   g \in AgentIds \cup {"ag9"}}
    /\ cpc = "loadAgent"

\* POST /actions/:id/execute (and /test)
InitExecute ==
    /\ agent_actions = {}
    /\ req \in {[kind |-> "execute", agentId |-> "", actionId |-> a, inputs |-> i] :
                   a \in ActionIds \cup {"a9"}, i \in ApiInputs}
    /\ cpc = "apiExecute"

\* a chat request arrives
Init == InitWorld /\ InitIdle /\ InitChat /\ InitNoKB

\* an execute request arrives
InitExecuteRequest == InitWorld /\ InitIdle /\ InitExecute /\ InitNoKB

(***************************************************************************)
(* ActionExecutorService.execute, one action per await.                    *)
(***************************************************************************)
\* the caller's `await actionExecutor.execute(actionId, inputs)`
CallExecute(actionId, inputs) ==
    /\ epc' = "findUnique"
    /\ eActionId' = actionId
    /\ eInputs' = inputs
    /\ eRequest' = NoRequest
    /\ attempt' = 0
    /\ lastError' = NoError
    /\ eResult' = NoResult
    /\ events' = Append(events, Event("execute", actionId, 0))

\* execute returns `result` to its caller
Return(result) ==
    /\ epc' = "returned"
    /\ eResult' = result

\* A lookup that is served from the catalog the caller loaded.
ExecFindInCatalog ==
    /\ epc = "findUnique"
    /\ events' = Append(events, Event("findUnique", eActionId, 0))
    /\ \/ /\ eActionId \in actions \cup catalog
          /\ epc' = "validate"
          /\ UNCHANGED <<eResult, lastError>>
       \/ /\ eActionId \notin actions \cup catalog
          /\ Return(ActionNotFound)
          /\ UNCHANGED lastError
       \/ /\ epc' = "raised"
          /\ lastError' = Err("PrismaClientKnownRequestError", "")
          /\ UNCHANGED eResult
    /\ UNCHANGED <<dbVars, kbVars, req, cpc, chatVars, sent, eActionId, eInputs, eRequest, attempt, llmLog>>

\* const action = await prisma.action.findUnique(...), outside the try block
ExecFindUnique ==
    /\ epc = "findUnique"
    /\ events' = Append(events, Event("findUnique", eActionId, 0))
    /\ \/ /\ eActionId \in actions
          /\ epc' = "validate"
          /\ UNCHANGED <<eResult, lastError>>
       \/ /\ eActionId \notin actions
          /\ Return(ActionNotFound)
          /\ UNCHANGED lastError
       \/ \* the query rejects: nothing catches it inside execute
          /\ epc' = "raised"
          /\ lastError' = Err("PrismaClientKnownRequestError", "")
          /\ UNCHANGED eResult
    /\ UNCHANGED <<dbVars, kbVars, req, cpc, chatVars, sent, eActionId, eInputs, eRequest, attempt, llmLog>>

\* this.validateInputs(action.variables, inputs)
ExecValidate ==
    /\ epc = "validate"
    /\ LET error == validateInputs(ActionRow(eActionId).variables, eInputs)
       IN  /\ events' = Append(events, Event("validate", error.msg, 0))
           /\ IF error = NoError
              THEN /\ epc' = "build"
                   /\ UNCHANGED <<eResult, lastError>>
              ELSE /\ lastError' = error
                   /\ Return(FailureResult(error))
    /\ UNCHANGED <<dbVars, kbVars, req, cpc, chatVars, sent, eActionId, eInputs, eRequest, attempt, llmLog>>

\* const request = await this.buildRequest(action, inputs)
ExecBuild ==
    /\ epc = "build"
    /\ LET built == buildRequest(ActionRow(eActionId), eInputs, secrets, env)
       IN  /\ events' = events \o secretEvents(built.looked)
                               \o <<Event("built", built.error.msg, 0)>>
           /\ IF built.ok
              THEN /\ eRequest' = built.request
                   /\ epc' = "http"
                   /\ UNCHANGED <<eResult, lastError>>
              ELSE /\ lastError' = built.error
                   /\ Return(FailureResult(built.error))
                   /\ UNCHANGED eRequest
    /\ UNCHANGED <<dbVars, kbVars, req, cpc, chatVars, sent, eActionId, eInputs, attempt, llmLog>>

\* One iteration of executeWithRetry's loop: `return await axios(config)` and its catch
ExecAttempt ==
    /\ epc = "http"
    /\ attempt <= maxRetries
    /\ \E outcome \in HttpOutcomes :
          /\ events' = Append(events, Event("http", eRequest.url, outcome.status))
          /\ IF axiosResolves(outcome)
             THEN /\ Return(SuccessResult(outcome, eRequest))
                  /\ UNCHANGED lastError
             ELSE /\ lastError' = axiosError(outcome)
                  /\ IF shouldRetry(axiosError(outcome), attempt)
                     THEN /\ epc' = "backoff"
                          /\ UNCHANGED eResult
                     ELSE Return(FailureResult(axiosError(outcome)))
    /\ UNCHANGED <<dbVars, kbVars, req, cpc, chatVars, sent, eActionId, eInputs, eRequest, attempt, llmLog>>

\* await new Promise(resolve => setTimeout(resolve, delay)); continue
ExecBackoff ==
    /\ epc = "backoff"
    /\ events' = Append(events, Event("sleep", "", backoffDelay(attempt)))
    /\ attempt' = attempt + 1
    /\ epc' = "http"
    /\ UNCHANGED <<dbVars, kbVars, req, cpc, chatVars, sent, eActionId, eInputs, eRequest, lastError,
                   eResult, llmLog>>

(***************************************************************************)
(* ActionController.execute / test: POST /actions/:id/execute.             *)
(***************************************************************************)
Send(status, error, message, result) ==
    /\ sent' = [status |-> status, error |-> error, message |-> message, result |-> result]
    /\ cpc' = "done"

ApiExecute ==
    /\ cpc = "apiExecute"
    /\ CallExecute(req.actionId, req.inputs)
    /\ cpc' = "apiWait"
    /\ UNCHANGED <<dbVars, kbVars, req, chatVars, sent, llmLog>>

\* res.json(executionResult)
ApiRespond ==
    /\ cpc = "apiWait"
    /\ epc = "returned"
    /\ Send(200, "", NoMessage, eResult)
    /\ UNCHANGED <<dbVars, kbVars, req, chatVars, execVars, events, llmLog>>

\* catch (error) { res.status(500).json({ error: error.message }) }
ApiCatch ==
    /\ cpc = "apiWait"
    /\ epc = "raised"
    /\ Send(500, lastError.msg, NoMessage, NoResult)
    /\ UNCHANGED <<dbVars, kbVars, req, chatVars, execVars, events, llmLog>>

(***************************************************************************)
(* What the model may answer.  The vendor chooses the text; these cover a  *)
(* plain answer, a well-formed call per stored action, a call with inputs  *)
(* that fail validation, a call of an unknown tool, and blocks from which  *)
(* parseToolCall takes nothing.                                            *)
(***************************************************************************)
CallOf(tool, inputs) == <<Fence("json", DocObj(JStr(tool), inputs))>>

Completions ==
    {<<Prose("It is sunny in Paris.")>>,
     CallOf("getWeather", InObj([NoFields EXCEPT !["city"] = JStr("Paris")])),
     CallOf("getWeather", InObj(NoFields)),
     CallOf("getWeather", InStr),
     CallOf("createOrder", InObj([NoFields EXCEPT !["city"] = JObj, !["count"] = JNum("42")])),
     CallOf("listItems", InObj([NoFields EXCEPT !["city"] = JArr, !["count"] = JBool("true")])),
     CallOf("ping", InObj(NoFields)),
     CallOf("sendEmail", InObj(NoFields)),
     <<Prose("Let me check."), Fence("json", Malformed),
       Fence("json", DocObj(JStr("ping"), InObj(NoFields)))>>,
     <<Fence("json", DocNull)>>,
     <<Fence("json", DocObj(JStr("ping"), InUndef))>>,
     <<Fence("js", DocObj(JStr("ping"), InObj(NoFields)))>>}

\* the second completion: an answer, or text that again holds a well-formed call
FinalCompletions ==
    {<<Prose("It is 21 degrees in Paris.")>>,
     CallOf("getWeather", InObj([NoFields EXCEPT !["city"] = JStr("Rome")]))}

\* the rows of `actions` in a fixed order (the query states none)
RECURSIVE rowsOf(_, _)
rowsOf(ids, order) ==
    IF order = <<>> THEN <<>>
    ELSE (IF Head(order) \in ids THEN <<ActionRow(Head(order))>> ELSE <<>>)
         \o rowsOf(ids, Tail(order))

ActionOrder == <<"a1", "a2", "a3", "a4">>

\* actions.find(a => a.name === response.toolCall.tool): the ids whose row matches
findAction(ids, toolCall) ==
    {a \in ids : toolCall.tool = JStr(ActionRow(a).name)}

\* LLMService.chat(provider, model, messages, tools, apiKey): the call is logged
\* with the instruction it builds; the vendor's answer is the caller's choice.
LLMChat(messages, tools, threw, content) ==
    /\ llmLog' = Append(llmLog, [tools |-> tools, messages |-> messages,
                                  instruction |-> buildSystemInstruction(messages, tools),
                                  threw |-> threw, content |-> content])
    /\ events' = Append(events, Event("llm", "", Len(tools)))

LLMResponse(content) == [content |-> content, toolCall |-> parseToolCall(content)]

messagesWithSystem ==
    <<[role |-> "system", content |-> AgentRow(req.agentId).systemPrompt]>> \o UserMessages

\* The whole message of the action result, as the controller words it.
resultMessage(toolCall, executionResult) ==
    IF executionResult.success /\ Truthy(JStr(executionResult.data))
    THEN [form |-> "success", tool |-> toolCall.tool.val, data |-> executionResult.data,
          error |-> [msg |-> AbsentValue, arg |-> ""]]
    ELSE [form |-> "failure", tool |-> toolCall.tool.val, data |-> AbsentValue,
          error |-> executionResult.error]

messagesWithToolResult(firstResponse, executionResult) ==
    messagesWithSystem
    \o <<[role |-> "assistant", content |-> firstResponse.content],
         [role |-> "user", content |-> resultMessage(firstResponse.toolCall, executionResult)]>>

(***************************************************************************)
(* AgentController.chat: POST /agents/:id/chat, one action per await.      *)
(***************************************************************************)
\* SELECT * FROM agents WHERE id = $1
ChatLoadAgent ==
    /\ cpc = "loadAgent"
    /\ IF req.agentId \in AgentIds
       THEN /\ cpc' = "loadActions"
            /\ UNCHANGED sent
       ELSE Send(404, "Agent not found", NoMessage, NoResult)
    /\ UNCHANGED <<dbVars, kbVars, req, chatVars, execVars, events, llmLog>>

\* a query of the pool rejects (or decrypt throws): caught, answered with 500
ChatQueryFails ==
    /\ cpc \in {"loadAgent", "loadActions"}
    /\ Send(500, "query failed", NoMessage, NoResult)
    /\ UNCHANGED <<dbVars, kbVars, req, chatVars, execVars, events, llmLog>>

\* SELECT a.* FROM actions a JOIN agent_actions aa ... WHERE aa.agentId = $1 AND aa.enabled = true
enabledActions(agentId) ==
    {aa.actionId : aa \in {b \in agent_actions : b.agentId = agentId /\ b.enabled}} \cap actions

ChatLoadActions ==
    /\ cpc = "loadActions"
    /\ catalog' = enabledActions(req.agentId)
    /\ cpc' = "first"
    /\ UNCHANGED <<dbVars, kbVars, req, response, sent, execVars, events, llmLog>>

\* const response = await LLMService.chat(..., messagesWithSystem, actions, apiKey)
ChatFirstCompletion ==
    /\ cpc = "first"
    /\ \/ \E content \in Completions :
             /\ LLMChat(messagesWithSystem, rowsOf(catalog, ActionOrder), FALSE, content)
             /\ response' = LLMResponse(content)
             /\ cpc' = "dispatch"
             /\ UNCHANGED sent
       \/ \* the provider call throws: caught, answered with 500
          /\ LLMChat(messagesWithSystem, rowsOf(catalog, ActionOrder), TRUE, <<>>)
          /\ Send(500, "provider failed", NoMessage, NoResult)
          /\ UNCHANGED response
    /\ UNCHANGED <<dbVars, kbVars, req, catalog, execVars>>

\* The tool call's action is taken from every stored action, not from the catalog.
toolActionAnyStored(ids, toolCall) ==
    IF toolCall.present THEN findAction(actions, toolCall) ELSE {}

\* if (response.toolCall) { const action = actions.find(...); if (action) {...} }
toolAction(ids, toolCall) ==
    IF toolCall.present THEN findAction(ids, toolCall) ELSE {}

\* { role, content: response.content, toolCalls: response.toolCall ? [..] : undefined,
\*   toolResults: undefined }
plainMessage(firstResponse) ==
    [role |-> "assistant", content |-> firstResponse.content,
     hasToolCalls |-> firstResponse.toolCall.present,
     toolCalls |-> IF firstResponse.toolCall.present THEN <<firstResponse.toolCall>> ELSE <<>>,
     hasToolResults |-> FALSE, toolResults |-> <<>>]

\* the branch after the first completion
ChatDispatch ==
    /\ cpc = "dispatch"
    /\ LET found == toolAction(catalog, response.toolCall)
       IN  IF found # {}
           THEN /\ CallExecute(CHOOSE a \in found : TRUE, response.toolCall.inputs)
                /\ cpc' = "exec"
                /\ UNCHANGED sent
           ELSE /\ Send(200, "", plainMessage(response), NoResult)
                /\ UNCHANGED <<execVars, events>>
    /\ UNCHANGED <<dbVars, kbVars, req, chatVars, llmLog>>

\* Passes the catalog again to the second completion.
secondToolsCatalogAgain(ids) == rowsOf(ids, ActionOrder)

\* the `[]` handed to the second LLMService.chat call
secondTools(ids) == <<>>

\* Answers with the first completion's content.
toolMessageFirstContent(firstResponse, finalResponse, executionResult) ==
    [role |-> "assistant", content |-> firstResponse.content,
     hasToolCalls |-> TRUE, toolCalls |-> <<firstResponse.toolCall>>,
     hasToolResults |-> TRUE, toolResults |-> <<executionResult>>]

\* { role, content: finalResponse.content, toolCalls: [response.toolCall],
\*   toolResults: [executionResult] }
toolMessage(firstResponse, finalResponse, executionResult) ==
    [role |-> "assistant", content |-> finalResponse.content,
     hasToolCalls |-> TRUE, toolCalls |-> <<firstResponse.toolCall>>,
     hasToolResults |-> TRUE, toolResults |-> <<executionResult>>]

\* Requests the second completion without awaiting execute.
ChatSecondCompletionEarly ==
    /\ cpc = "exec"
    /\ \/ \E content \in FinalCompletions :
             /\ LLMChat(messagesWithToolResult(response, eResult), secondTools(catalog),
                        FALSE, content)
             /\ Send(200, "", toolMessage(response, LLMResponse(content), eResult), NoResult)
       \/ /\ LLMChat(messagesWithToolResult(response, eResult), secondTools(catalog),
                     TRUE, <<>>)
          /\ Send(500, "provider failed", NoMessage, NoResult)
    /\ UNCHANGED <<dbVars, kbVars, req, chatVars, execVars>>

\* execute has returned: const finalResponse = await LLMService.chat(..., [], apiKey)
ChatSecondCompletion ==
    /\ cpc = "exec"
    /\ epc = "returned"
    /\ \/ \E content \in FinalCompletions :
             /\ LLMChat(messagesWithToolResult(response, eResult), secondTools(catalog),
                        FALSE, content)
             /\ Send(200, "", toolMessage(response, LLMResponse(content), eResult), NoResult)
       \/ /\ LLMChat(messagesWithToolResult(response, eResult), secondTools(catalog),
                     TRUE, <<>>)
          /\ Send(500, "provider failed", NoMessage, NoResult)
    /\ UNCHANGED <<dbVars, kbVars, req, chatVars, execVars>>

\* execute threw: caught by chat's catch, answered with 500
ChatCatch ==
    /\ cpc = "exec"
    /\ epc = "raised"
    /\ Send(500, lastError.msg, NoMessage, NoResult)
    /\ UNCHANGED <<dbVars, kbVars, req, chatVars, execVars, events, llmLog>>

\* the steps of execute, whoever called it
ExecNext ==
    \/ ExecFindUnique
    \/ ExecValidate
    \/ ExecBuild
    \/ ExecAttempt
    \/ ExecBackoff

Next ==
    \/ ChatLoadAgent
    \/ ChatQueryFails
    \/ ChatLoadActions
    \/ ChatFirstCompletion
    \/ ChatDispatch
    \/ ChatSecondCompletion
    \/ ChatCatch
    \/ ExecNext

NextExecute ==
    \/ ApiExecute
    \/ ApiRespond
    \/ ApiCatch
    \/ ExecNext

\* one chat turn
Spec == Init /\ [][Next]_vars

\* one call of the execute endpoint
SpecExecute == InitExecuteRequest /\ [][NextExecute]_vars

(***************************************************************************)
(* Bindings of actions to agents: AgentController.addAction, removeAction  *)
(* and ActionController.delete, each followed by chat turns that load the  *)
(* catalog.  One request is served at a time.                              *)
(***************************************************************************)
MaxAdminOps == 3

\* the actions the binding requests name
BindingActionIds == {"a1", "a2"}

AgentIndex(agentId) == IF agentId = "ag1" THEN 1 ELSE 2

Binding(agentId, actionId, enabled) ==
    [agentId |-> agentId, actionId |-> actionId, enabled |-> enabled]

SamePair(row, agentId, actionId) == row.agentId = agentId /\ row.actionId = actionId

\* A plain INSERT that ignores the row the pair already has.
addActionInsertOnly(rows, agentId, actionId) ==
    rows \cup {Binding(agentId, actionId, TRUE)}

\* INSERT INTO agent_actions (...) VALUES (..., $1, $2, true, NOW())
\* ON CONFLICT ("agentId", "actionId") DO UPDATE SET enabled = true
addAction(rows, agentId, actionId) ==
    {r \in rows : ~SamePair(r, agentId, actionId)} \cup {Binding(agentId, actionId, TRUE)}

\* DELETE FROM agent_actions WHERE "agentId" = $1 AND "actionId" = $2
removeAction(rows, agentId, actionId) ==
    {r \in rows : ~SamePair(r, agentId, actionId)}

\* agent_actions_actionId_fkey ... ON DELETE CASCADE
cascadeAction(rows, actionId) == {r \in rows : r.actionId # actionId}

AdminRequest(kind, agentId, actionId) ==
    [kind |-> kind, agentId |-> agentId, actionId |-> actionId, inputs |-> InUndef]

\* no request is being served and another administrative request may come
AdminIdle ==
    /\ cpc \in {"idle", "first", "done"}
    /\ Len(events) < MaxAdminOps

\* POST /agents/:id/actions
AddAction ==
    /\ AdminIdle
    /\ \E agentId \in AgentIds, actionId \in BindingActionIds :
          /\ req' = AdminRequest("addAction", agentId, actionId)
          /\ IF actionId \in actions
             THEN /\ agent_actions' = addAction(agent_actions, agentId, actionId)
                  /\ events' = Append(events, Event("addAction", actionId, AgentIndex(agentId)))
                  /\ Send(200, "", NoMessage, NoResult)
             ELSE \* agent_actions_actionId_fkey is violated: caught, 500
                  /\ Send(500, "violates foreign key constraint", NoMessage, NoResult)
                  /\ UNCHANGED <<agent_actions, events>>
    /\ UNCHANGED <<actions, secrets, env, kbVars, chatVars, execVars, llmLog>>

\* DELETE /agents/:id/actions/:actionId
RemoveAction ==
    /\ AdminIdle
    /\ \E agentId \in AgentIds, actionId \in BindingActionIds :
          /\ req' = AdminRequest("removeAction", agentId, actionId)
          /\ agent_actions' = removeAction(agent_actions, agentId, actionId)
          /\ events' = Append(events, Event("removeAction", actionId, AgentIndex(agentId)))
    /\ Send(200, "", NoMessage, NoResult)
    /\ UNCHANGED <<actions, secrets, env, kbVars, chatVars, execVars, llmLog>>

\* DELETE /actions/:id
DeleteAction ==
    /\ AdminIdle
    /\ \E actionId \in BindingActionIds :
          /\ req' = AdminRequest("deleteAction", "", actionId)
          /\ actions' = actions \ {actionId}
          /\ agent_actions' = cascadeAction(agent_actions, actionId)
          /\ events' = Append(events, Event("deleteAction", actionId, 0))
    /\ Send(200, "", NoMessage, NoResult)
    /\ UNCHANGED <<secrets, env, kbVars, chatVars, execVars, llmLog>>

\* POST /agents/:id/chat arrives
ChatArrives ==
    /\ cpc \in {"idle", "first", "done"}
    /\ \E agentId \in AgentIds \cup {"ag9"} :
          req' = AdminRequest("chat", agentId, "")
    /\ cpc' = "loadAgent"
    /\ catalog' = {}
    /\ sent' = NoSent
    /\ UNCHANGED <<dbVars, kbVars, response, execVars, events, llmLog>>

\* no request yet; a binding may have been disabled by hand
InitBindings ==
    /\ actions = ActionIds
    /\ secrets = [n \in SecretNames |-> AbsentValue]
    /\ env = [n \in SecretNames |-> AbsentValue]
    /\ agent_actions \in {{}, {Binding("ag1", "a1", FALSE)}}
    /\ req = AdminRequest("", "", "")
    /\ cpc = "idle"
    /\ InitIdle
    /\ InitNoKB

NextBindings ==
    \/ AddAction
    \/ RemoveAction
    \/ DeleteAction
    \/ ChatArrives
    \/ ChatLoadAgent
    \/ ChatLoadActions
    \/ ChatQueryFails

\* binding requests and chat turns, one after the other
SpecBindings == InitBindings /\ [][NextBindings]_vars

(***************************************************************************)
(* EmbeddingsService.  A vector is [dimensions, values, seed]: a vendor's  *)
(* vector lists its values; a mock vector of 1536 values is determined by  *)
(* its seed textHash, value i being (sin(textHash + i) * 10000) % 1 over   *)
(* the magnitude, so it is kept as that seed.                              *)
(***************************************************************************)
MockDimensions == 1536
NoSeed == <<>>

VendorVector(values) == [dimensions |-> Len(values), values |-> values, seed |-> NoSeed]
MockVector(textHash) == [dimensions |-> MockDimensions, values |-> <<>>, seed |-> textHash]

Digits == "0123456789"

\* str.charCodeAt(i) for letters, digits and the space; "?" for the rest
charCodeAt(c) ==
    LET l == IndexOf(LowerLetters, c, 1)
        u == IndexOf(UpperLetters, c, 1)
        d == IndexOf(Digits, c, 1)
    IN  IF l # 0 THEN 96 + l
        ELSE IF u # 0 THEN 64 + u
        ELSE IF d # 0 THEN 47 + d
        ELSE IF c = " " THEN 32
        ELSE 63

\* A 32-bit integer is kept as its two 16-bit halves <<high, low>> (of the
\* two's complement), so that no intermediate value leaves the integers of
\* the checker.
Half == 65536

\* ((hash << 5) - hash) + char; hash & hash: 31 * hash + char modulo 2^32
hashStep(hash, char) ==
    LET low == 31 * hash[2] + char
    IN  <<(31 * hash[1] + (low \div Half)) % Half, low % Half>>

\* the loop of simpleHash over str[from..to], entered with `hash`; the range
\* is halved, and the left half evaluated first, so that long texts need no
\* deep recursion
RECURSIVE hashRange(_, _, _, _)
hashRange(str, from, to, hash) ==
    IF from > to THEN hash
    ELSE IF from = to THEN hashStep(hash, charCodeAt(CharAt(str, from)))
    ELSE LET mid == (from + to) \div 2
             left == hashRange(str, from, mid, hash)
         IN  IF left[1] >= 0 THEN hashRange(str, mid + 1, to, left) ELSE left

\* Math.abs(hash) of the 32-bit hash
abs32(hash) ==
    IF hash[1] < Half \div 2 THEN hash
    ELSE IF hash[2] = 0 THEN <<Half - hash[1], 0>>
    ELSE <<Half - hash[1] - 1, Half - hash[2]>>

\* simpleHash(str)
simpleHash(str) == abs32(hashRange(str, 1, Len(str), <<0, 0>>))

EmbeddingReturns(vector) == [raised |-> FALSE, error |-> "", value |-> vector]
EmbeddingRaises(error) == [raised |-> TRUE, error |-> error, value |-> VendorVector(<<>>)]

\* generateMockEmbeddings(text): str.length of simpleHash throws for a text
\* that is undefined or null
generateMockEmbeddings(text) ==
    IF text.kind \in {"undefined", "null"}
    THEN EmbeddingRaises("Cannot read properties of undefined (reading 'length')")
    ELSE EmbeddingReturns(MockVector(simpleHash(text.val)))

\* what the vendor's embeddings endpoint does with one call
VendorFails == [ok |-> FALSE, values |-> <<>>]
VendorGives(values) == [ok |-> TRUE, values |-> values]

\* the catch block of generateEmbeddings: return this.generateMockEmbeddings(text)
mockFallback(text, provider) == generateMockEmbeddings(text)

\* generateEmbeddings(text, provider, apiKey, model), the vendor answering `vendor`
generateEmbeddings(text, provider, apiKey, vendor) ==
    IF ~Truthy(apiKey) \/ Trim(apiKey.val) = ""
    THEN generateMockEmbeddings(text)
    ELSE IF provider \in {"openai", "google"} /\ vendor.ok
    THEN EmbeddingReturns(VendorVector(vendor.values))
    ELSE mockFallback(text, provider)

(***************************************************************************)
(* VectorService.upsert, as KBService.processFile calls it.                *)
(***************************************************************************)
\* `agent-${agentId}`
NamespaceOf(agentId) == "agent-" \o agentId

\* namespace || 'default'
orDefault(namespace) == IF namespace = "" THEN "default" ELSE namespace

VectorItem(id, values) == [id |-> id, values |-> values]
IndexEntry(namespace, id, values) == [namespace |-> namespace, id |-> id, values |-> values]

\* the last item of the batch that has this id
LastWithId(vectors, id) ==
    LET is == {i \in 1..Len(vectors) : vectors[i].id = id}
    IN  vectors[CHOOSE i \in is : \A j \in is : j <= i]

\* index.namespace(namespace || 'default').upsert(vectors) of the remote index
remoteUpsert(index, vectors, namespace) ==
    LET ns == orDefault(namespace)
        ids == {vectors[i].id : i \in 1..Len(vectors)}
    IN  {e \in index : ~(e.namespace = ns /\ e.id \in ids)}
        \cup {IndexEntry(ns, id, LastWithId(vectors, id).values) : id \in ids}

\* upsert(vectors, namespace): the remote index takes the batch; without the
\* remote index nothing is stored here (the rows are written by processFile)
upsert(backend, store, vectors, namespace) ==
    IF backend = "pinecone"
    THEN [store EXCEPT !.index = remoteUpsert(store.index, vectors, namespace)]
    ELSE store

(***************************************************************************)
(* Knowledge bases: KBController.upload, buildEmbeddings, delete and       *)
(* KBService.processFile, one action per await.  One request is served at  *)
(* a time.  A query of the database may reject.                            *)
(***************************************************************************)
MaxKbRequests == 3

CHUNK_SIZE == 1000
CHUNK_OVERLAP == 200

RECURSIVE Repeat(_, _)
Repeat(s, n) == IF n = 0 THEN "" ELSE s \o Repeat(s, n - 1)

\* the uploaded files: an empty text, a text of 882 characters (two chunks),
\* and a file of a type extractText does not know
LongText == Repeat("lorem ipsum dolor sit amet consectetur adipiscing", 18)
Files == {[fileType |-> "txt", text |-> ""], [fileType |-> "txt", text |-> LongText],
          [fileType |-> "exe", text |-> LongText]}
NoFile == [fileType |-> "", text |-> ""]

Min(a, b) == IF a < b THEN a ELSE b

\* chunkText(text) from offset start on (0-based, as in the source)
RECURSIVE chunksFrom(_, _)
chunksFrom(text, start) ==
    IF ~(start < Len(text)) THEN <<>>
    ELSE LET end == Min(start + CHUNK_SIZE, Len(text))
         IN  <<SubSeq(text, start + 1, end)>>
             \o chunksFrom(text, start + (CHUNK_SIZE - CHUNK_OVERLAP))

chunkText(text) == chunksFrom(text, 0)

\* extractText(filePath, fileType) throws for a type outside pdf, docx, txt, csv, json
supportedType(fileType) == fileType \in {"pdf", "docx", "txt", "csv", "json"}

\* `${kbId}-chunk-${i}`
vectorIdOf(kbId, i) == kbId \o "-chunk-" \o ToString(i)

ChunkRow(kbId, i, text, embedding) ==
    [knowledgeBaseId |-> kbId, chunkIndex |-> i, text |-> text,
     vectorId |-> vectorIdOf(kbId, i), embedding |-> embedding]

\* the deployment that serves the knowledge-base requests
Backend == IF usePinecone THEN "pinecone" ELSE "postgres"

Exists(kbId) == knowledge_bases[kbId] # NoKb

\* UPDATE knowledge_bases SET status = $1 WHERE id = $2 (no row: nothing changes)
setStatus(kbs, kbId, status) ==
    IF kbs[kbId] = NoKb THEN kbs ELSE [kbs EXCEPT ![kbId].status = status]

\* the update of the status of kbId is done and logged
WriteStatus(kbId, status) ==
    /\ knowledge_bases' = setStatus(knowledge_bases, kbId, status)
    /\ events' = Append(events, Event(status, kbId, 0))

\* the update rejects
WriteRejects == UNCHANGED <<knowledge_bases, events>>

\* A table without the unique index.
chunkNeverExists(rows, kbId, i) == FALSE

\* vector_chunks_knowledgeBaseId_chunkIndex_key
chunkExists(rows, kbId, i) ==
    \E n \in 1..Len(rows) : rows[n].knowledgeBaseId = kbId /\ rows[n].chunkIndex = i

\* vector_chunks_knowledgeBaseId_fkey ... ON DELETE CASCADE
cascadeKb(rows, kbId) == SelectSeq(rows, LAMBDA r : r.knowledgeBaseId # kbId)

KbRequest(kind, agentId, kbId) ==
    [kind |-> kind, agentId |-> agentId, actionId |-> kbId, inputs |-> InUndef]

\* the requests served so far
KbRequests == SelectSeq(events, LAMBDA ev : ev.e \in {"upload", "build", "deleteKb"})

KbIdle ==
    /\ cpc \in {"idle", "done"}
    /\ Len(KbRequests) < MaxKbRequests

\* gen_random_uuid(): an id no upload has had
FreshKbIds == {k \in KbIds : \A n \in 1..Len(events) : ~(events[n].e = "upload" /\ events[n].a = k)}

\* POST /kb/:agentId/upload
KbUpload ==
    /\ KbIdle
    /\ \E agentId \in AgentIds, file \in Files \cup {NoFile} :
          /\ req' = KbRequest("upload", agentId, "")
          /\ IF file = NoFile
             THEN /\ Send(400, "No file uploaded", NoMessage, NoResult)
                  /\ UNCHANGED <<knowledge_bases, events>>
             ELSE /\ FreshKbIds # {}
                  /\ LET id == IF "k1" \in FreshKbIds THEN "k1" ELSE "k2"
                     IN  /\ knowledge_bases' =
                               [knowledge_bases EXCEPT ![id] =
                                   [agentId |-> agentId, status |-> "uploaded", chunkCount |-> 0,
                                    fileType |-> file.fileType, file |-> file.text]]
                         /\ events' = Append(events, Event("upload", id, AgentIndex(agentId)))
                  /\ Send(200, "", NoMessage, NoResult)
    /\ UNCHANGED <<dbVars, stores, usePinecone, kRun, kRuns, out, chatVars, execVars, llmLog>>

\* DELETE /kb/:id
KbDelete ==
    /\ KbIdle
    /\ \E kbId \in KbIds :
          /\ req' = KbRequest("deleteKb", "", kbId)
          /\ IF ~Exists(kbId)
             THEN /\ Send(404, "Knowledge base not found", NoMessage, NoResult)
                  /\ UNCHANGED <<knowledge_bases, stores, events>>
             ELSE /\ knowledge_bases' = [knowledge_bases EXCEPT ![kbId] = NoKb]
                  /\ stores' = [stores EXCEPT ![Backend].vector_chunks =
                                   cascadeKb(stores[Backend].vector_chunks, kbId)]
                  /\ events' = Append(events, Event("deleteKb", kbId, 0))
                  /\ Send(200, "", NoMessage, NoResult)
    /\ UNCHANGED <<dbVars, usePinecone, kRun, kRuns, out, chatVars, execVars, llmLog>>

\* POST /kb/:id/build-embeddings arrives
KbBuildArrives ==
    /\ KbIdle
    /\ \E kbId \in KbIds :
          /\ req' = KbRequest("build", "", kbId)
          /\ kRun' = [NoRun EXCEPT !.kbId = kbId]
          /\ events' = Append(events, Event("build", kbId, 0))
    /\ cpc' = "kbSelect"
    /\ sent' = NoSent
    /\ UNCHANGED <<dbVars, knowledge_bases, stores, usePinecone, kRuns, out, chatVars, execVars, llmLog>>

\* what no step of a run changes
KbFrame == UNCHANGED <<dbVars, usePinecone, kRuns, out, req, chatVars, execVars, llmLog>>

\* the statement after `await` throws `error`: control goes to `handler`
Throw(error, handler) ==
    /\ kRun' = [kRun EXCEPT !.error = error]
    /\ cpc' = handler

\* const result = await pool.query('SELECT * FROM knowledge_bases WHERE id = $1')
KbSelect ==
    /\ cpc = "kbSelect"
    /\ \/ /\ ~Exists(kRun.kbId)
          /\ Send(404, "Knowledge base not found", NoMessage, NoResult)
          /\ UNCHANGED kRun
       \/ /\ Exists(kRun.kbId)
          /\ cpc' = "kbMark"
          /\ UNCHANGED <<kRun, sent>>
       \/ /\ Send(500, "query failed", NoMessage, NoResult)
          /\ UNCHANGED kRun
    /\ UNCHANGED <<knowledge_bases, stores, events>>
    /\ KbFrame

\* await pool.query('UPDATE knowledge_bases SET status = $1 ...', ['processing', id])
KbMarkProcessing ==
    /\ cpc = "kbMark"
    /\ \/ /\ WriteStatus(kRun.kbId, "processing")
          /\ cpc' = "pfFind"
          /\ UNCHANGED <<kRun, sent>>
       \/ /\ Send(500, "query failed", NoMessage, NoResult)
          /\ WriteRejects
          /\ UNCHANGED kRun
    /\ UNCHANGED stores
    /\ KbFrame

\* processFile: const kb = await prisma.knowledgeBase.findUnique(...), before the try
ProcessFind ==
    /\ cpc = "pfFind"
    /\ \/ /\ Exists(kRun.kbId)
          /\ cpc' = "pfMark"
          /\ UNCHANGED kRun
       \/ /\ ~Exists(kRun.kbId)
          /\ Throw("Knowledge base not found", "kbCatch")
       \/ Throw("query failed", "kbCatch")
    /\ UNCHANGED <<knowledge_bases, stores, sent, events>>
    /\ KbFrame

\* processFile: await prisma.knowledgeBase.update({ data: { status: 'processing' } })
ProcessMarkProcessing ==
    /\ cpc = "pfMark"
    /\ \/ /\ WriteStatus(kRun.kbId, "processing")
          /\ cpc' = "pfExtract"
          /\ UNCHANGED kRun
       \/ /\ Throw("query failed", "pfCatch")
          /\ WriteRejects
    /\ UNCHANGED <<stores, sent>>
    /\ KbFrame

\* processFile: extractText, chunkText, the API key
ProcessExtract ==
    /\ cpc = "pfExtract"
    /\ LET kb == knowledge_bases[kRun.kbId]
       IN  \/ /\ ~supportedType(kb.fileType)
              /\ Throw("Unsupported file type", "pfCatch")
           \/ \* fs.readFile rejects
              /\ supportedType(kb.fileType)
              /\ Throw("ENOENT", "pfCatch")
           \/ \* decrypt throws and DEFAULT_OPENAI_API_KEY is not set
              /\ supportedType(kb.fileType)
              /\ Throw("No API key available for embeddings", "pfCatch")
           \/ /\ supportedType(kb.fileType)
              /\ kRun' = [kRun EXCEPT !.chunks = chunkText(kb.file), !.apiKey = "sk-key",
                                      !.i = 0, !.vectorItems = <<>>]
              /\ cpc' = IF chunkText(kb.file) = <<>> THEN "pfUpsert" ELSE "pfChunk"
    /\ UNCHANGED <<knowledge_bases, stores, sent, events>>
    /\ KbFrame

\* the vectors the vendor's embeddings endpoint gives in these runs
KbVendorOutcomes == {VendorFails, VendorGives(<<1, 0>>)}

\* processFile: one iteration of the loop over the chunks
ProcessChunk ==
    /\ cpc = "pfChunk"
    /\ \E vendor \in KbVendorOutcomes :
          LET kbId == kRun.kbId
              i == kRun.i
              chunk == kRun.chunks[i + 1]
              provider == IF AgentRow(knowledge_bases[kbId].agentId).llmProvider = "google"
                          THEN "google" ELSE "openai"
              embedding == generateEmbeddings(JStr(chunk), provider, JStr(kRun.apiKey), vendor).value
              rows == stores[Backend].vector_chunks
          IN  \/ \* prisma.vectorChunk.create: the unique index or the foreign key is violated
                 /\ chunkExists(rows, kbId, i) \/ ~Exists(kbId)
                 /\ Throw("Unique constraint failed", "pfCatch")
                 /\ UNCHANGED stores
              \/ \* prisma.vectorChunk.create rejects
                 /\ Throw("query failed", "pfCatch")
                 /\ UNCHANGED stores
              \/ /\ ~chunkExists(rows, kbId, i) /\ Exists(kbId)
                 /\ stores' = [stores EXCEPT ![Backend].vector_chunks =
                                  Append(rows, ChunkRow(kbId, i, chunk, embedding))]
                 /\ kRun' = [kRun EXCEPT !.i = i + 1,
                                         !.vectorItems = Append(@, VectorItem(vectorIdOf(kbId, i), embedding))]
                 /\ cpc' = IF i + 1 < Len(kRun.chunks) THEN "pfChunk" ELSE "pfUpsert"
    /\ UNCHANGED <<knowledge_bases, sent, events>>
    /\ KbFrame

\* processFile: await vectorService.upsert(vectorItems, `agent-${kb.agentId}`)
ProcessUpsert ==
    /\ cpc = "pfUpsert"
    /\ \/ /\ stores' = [stores EXCEPT ![Backend] =
                           upsert(Backend, @, kRun.vectorItems,
                                  NamespaceOf(knowledge_bases[kRun.kbId].agentId))]
          /\ cpc' = "pfIndexed"
          /\ UNCHANGED kRun
       \/ \* the remote index rejects the call
          /\ usePinecone
          /\ Throw("PineconeConnectionError", "pfCatch")
          /\ UNCHANGED stores
    /\ UNCHANGED <<knowledge_bases, sent, events>>
    /\ KbFrame

\* processFile: update({ data: { status: 'indexed', chunkCount: chunks.length } })
ProcessMarkIndexed ==
    /\ cpc = "pfIndexed"
    /\ \/ /\ knowledge_bases' =
                [setStatus(knowledge_bases, kRun.kbId, "indexed")
                    EXCEPT ![kRun.kbId].chunkCount = Len(kRun.chunks)]
          /\ events' = Append(events, Event("indexed", kRun.kbId, 0))
          /\ cpc' = "kbReselect"
          /\ UNCHANGED kRun
       \/ /\ Throw("query failed", "pfCatch")
          /\ WriteRejects
    /\ UNCHANGED <<stores, sent>>
    /\ KbFrame

\* processFile's catch: update({ data: { status: 'failed' } }); throw error
ProcessCatch ==
    /\ cpc = "pfCatch"
    /\ \/ /\ WriteStatus(kRun.kbId, "failed")
          /\ cpc' = "kbCatch"
          /\ UNCHANGED kRun
       \/ \* the update rejects: its error leaves the catch block
          /\ Throw("query failed", "kbCatch")
          /\ WriteRejects
    /\ UNCHANGED <<stores, sent>>
    /\ KbFrame

\* const updatedKb = await pool.query('SELECT ...'); res.json({ success: true, chunkCount })
KbReselect ==
    /\ cpc = "kbReselect"
    /\ \/ /\ Send(200, "", NoMessage, NoResult)
          /\ UNCHANGED kRun
       \/ /\ Throw("query failed", "kbCatch")
          /\ UNCHANGED sent
    /\ UNCHANGED <<knowledge_bases, stores, events>>
    /\ KbFrame

\* buildEmbeddings' inner catch: UPDATE ... status = 'failed'; throw error,
\* which the outer catch answers with 500
KbCatch ==
    /\ cpc = "kbCatch"
    /\ \/ WriteStatus(kRun.kbId, "failed")
       \/ WriteRejects
    /\ Send(500, kRun.error, NoMessage, NoResult)
    /\ UNCHANGED <<kRun, stores>>
    /\ KbFrame

InitKB ==
    /\ actions = ActionIds
    /\ agent_actions = {}
    /\ secrets = [n \in SecretNames |-> AbsentValue]
    /\ env = [n \in SecretNames |-> AbsentValue]
    /\ knowledge_bases = [k \in KbIds |-> NoKb]
    /\ stores = [b \in Backends |-> EmptyStore]
    /\ usePinecone \in BOOLEAN
    /\ kRun = NoRun
    /\ kRuns = <<>>
    /\ out = NoOut
    /\ req = KbRequest("", "", "")
    /\ cpc = "idle"
    /\ InitIdle

NextKB ==
    \/ KbUpload
    \/ KbDelete
    \/ KbBuildArrives
    \/ KbSelect
    \/ KbMarkProcessing
    \/ ProcessFind
    \/ ProcessMarkProcessing
    \/ ProcessExtract
    \/ ProcessChunk
    \/ ProcessUpsert
    \/ ProcessMarkIndexed
    \/ ProcessCatch
    \/ KbReselect
    \/ KbCatch

\* uploads, ingestion runs and deletions, one after the other
SpecKB == InitKB /\ [][NextKB]_vars

(***************************************************************************)
(* One call of EmbeddingsService.generateEmbeddings.                       *)
(***************************************************************************)
\* the arguments of the call: text (req.body.query of a search may be absent),
\* provider, apiKey, and what the vendor would answer
EmbedTexts == {Undef, JStr(""), JStr("hello"), JStr("Hello world 42")}
EmbedProviders == {"openai", "google", "cohere"}
EmbedApiKeys == {Undef, JStr(""), JStr("  "), JStr("sk-key")}
EmbedVendorOutcomes == {VendorFails, VendorGives(<<1, 0>>), VendorGives(<<3, 4, 0>>)}

\* the vendor's endpoint is asked: the key is not blank and the provider is known
vendorCalled(provider, apiKey) ==
    /\ Truthy(apiKey) /\ Trim(apiKey.val) # ""
    /\ provider \in {"openai", "google"}

InitEmbeddings ==
    /\ InitWorld
    /\ agent_actions = {}
    /\ InitIdle
    /\ InitNoKB
    /\ req \in {[kind |-> "generateEmbeddings", text |-> t, provider |-> p, apiKey |-> k, vendor |-> v] :
                   t \in EmbedTexts, p \in EmbedProviders, k \in EmbedApiKeys,
                   v \in EmbedVendorOutcomes}
    /\ cpc = "embed"

\* await embeddingsService.generateEmbeddings(text, provider, apiKey, model)
Embed ==
    /\ cpc = "embed"
    /\ out' = generateEmbeddings(req.text, req.provider, req.apiKey, req.vendor)
    /\ events' = IF vendorCalled(req.provider, req.apiKey)
                 THEN Append(events, Event("vendor", req.provider, 0))
                 ELSE events
    /\ cpc' = "embedded"
    /\ UNCHANGED <<dbVars, knowledge_bases, stores, usePinecone, kRun, kRuns, req, chatVars,
                   sent, execVars, llmLog>>

NextEmbeddings == Embed

\* one call of generateEmbeddings, for every argument
SpecEmbeddings == InitEmbeddings /\ [][NextEmbeddings]_vars

(***************************************************************************)
(* VectorService: cosineSimilarity, query, deleteByIds, deleteNamespace in *)
(* both backends.  A store is [vector_chunks, index]: the rows of table    *)
(* vector_chunks in storage order and the entries of the remote index.     *)
(***************************************************************************)
\* a row written before column embedding was added has no embedding
NoEmbedding == [dimensions |-> 0, values |-> <<>>, seed |-> NoSeed]

RECURSIVE SumTo(_, _)
SumTo(f, n) == IF n = 0 THEN 0 ELSE f[n] + SumTo(f, n - 1)

\* dotProduct, normA * normA
Dot(a, b) == SumTo([i \in 1..Len(a) |-> a[i] * b[i]], Len(a))

\* Math.sqrt of a sum of squares (the vectors used have whole norms)
RECURSIVE SqrtFrom(_, _)
SqrtFrom(x, n) == IF n * n >= x THEN n ELSE SqrtFrom(x, n + 1)
Sqrt(x) == SqrtFrom(x, 0)

\* scores are kept as whole multiples of 1 / ScoreScale
ScoreScale == 25

\* the loop of cosineSimilarity over two mock vectors, which are kept as
\* their seeds: a vector against itself scores 1; the sines of two different
\* seeds are not evaluated, and their score is kept as 0
mockSimilarity(a, b) == IF a.seed = b.seed THEN ScoreScale ELSE 0

\* cosineSimilarity(a, b): [threw, score]
cosineSimilarity(a, b) ==
    IF a.dimensions # b.dimensions
    THEN [threw |-> TRUE, score |-> 0]
    ELSE IF a.seed # NoSeed \/ b.seed # NoSeed
    THEN [threw |-> FALSE, score |-> mockSimilarity(a, b)]
    ELSE [threw |-> FALSE,
          score |-> (Dot(a.values, b.values) * ScoreScale)
                        \div (Sqrt(Dot(a.values, a.values)) * Sqrt(Dot(b.values, b.values)))]

VectorMatch(id, score) == [id |-> id, score |-> score]

\* Array.prototype.sort with (a, b) => a.score - b.score, ascending.
RECURSIVE insertAscending(_, _)
insertAscending(sorted, match) ==
    IF sorted = <<>> THEN <<match>>
    ELSE IF Head(sorted).score <= match.score
         THEN <<Head(sorted)>> \o insertAscending(Tail(sorted), match)
         ELSE <<match>> \o sorted

\* one step of the stable sort with (a, b) => b.score - a.score: match goes
\* behind every element whose score is not lower
RECURSIVE insertDescending(_, _)
insertDescending(sorted, match) ==
    IF sorted = <<>> THEN <<match>>
    ELSE IF Head(sorted).score >= match.score
         THEN <<Head(sorted)>> \o insertDescending(Tail(sorted), match)
         ELSE <<match>> \o sorted

\* matches.sort((a, b) => b.score - a.score)
RECURSIVE sortMatches(_)
sortMatches(matches) ==
    IF matches = <<>> THEN <<>>
    ELSE insertDescending(sortMatches(SubSeq(matches, 1, Len(matches) - 1)),
                          matches[Len(matches)])

Max(a, b) == IF a > b THEN a ELSE b

\* matches.slice(0, topK)
slice(matches, topK) ==
    SubSeq(matches, 1, IF topK < 0 THEN Max(Len(matches) + topK, 0) ELSE Min(topK, Len(matches)))

\* namespace.replace('agent-', ''): the first occurrence is removed
agentIdOf(namespace) ==
    LET at == IndexOf(namespace, "agent-", 1)
    IN  IF at = 0 THEN namespace
        ELSE SubSeq(namespace, 1, at - 1) \o SubSeq(namespace, at + 6, Len(namespace))

\* A scan that takes the rows of every agent.
chunksOfEveryAgent(rows, kbs, agentId) == rows

\* prisma.vectorChunk.findMany({ where: { knowledgeBase: { agentId } } })
chunksOfAgent(rows, kbs, agentId) ==
    SelectSeq(rows, LAMBDA r : kbs[r.knowledgeBaseId].agentId = agentId)

QueryReturns(matches) == [raised |-> FALSE, error |-> "", value |-> matches]
QueryRaises(error) == [raised |-> TRUE, error |-> error, value |-> <<>>]

\* the scores of the candidates against vector, in the candidates' order
scoreAll(vector, candidates) ==
    [i \in 1..Len(candidates) |->
        VectorMatch(candidates[i].id, cosineSimilarity(vector, candidates[i].values).score)]

\* sort by score and take the top K of the candidates [id, values]
topMatches(vector, candidates, topK) ==
    IF \E i \in 1..Len(candidates) : cosineSimilarity(vector, candidates[i].values).threw
    THEN QueryRaises("Vectors must have the same length")
    ELSE QueryReturns(slice(sortMatches(scoreAll(vector, candidates)), topK))

\* query without the remote index: scan the agent's rows that have an embedding
scanQuery(rows, kbs, vector, topK, namespace) ==
    LET chunks == chunksOfAgent(rows, kbs, agentIdOf(namespace))
        withEmbedding == SelectSeq(chunks, LAMBDA r : r.embedding # NoEmbedding)
        candidates == [i \in 1..Len(withEmbedding) |->
                          VectorItem(withEmbedding[i].vectorId, withEmbedding[i].embedding)]
    IN  IF chunks = <<>> THEN QueryReturns(<<>>)
        ELSE topMatches(vector, candidates, topK)

\* the ids a vector may have, in the order the remote index lists its entries
VectorIds == <<"k1-chunk-0", "k1-chunk-1", "k1-chunk-2", "k2-chunk-0", "k2-chunk-1", "k2-chunk-2">>

\* index.namespace(namespace || 'default').query({ vector, topK })
remoteQuery(index, vector, topK, namespace) ==
    LET ns == orDefault(namespace)
        ids == SelectSeq(VectorIds, LAMBDA id : \E e \in index : e.namespace = ns /\ e.id = id)
        candidates == [i \in 1..Len(ids) |->
                          VectorItem(ids[i], (CHOOSE e \in index : e.namespace = ns /\ e.id = ids[i]).values)]
    IN  topMatches(vector, candidates, topK)

\* query(vector, topK, namespace)
query(backend, store, kbs, vector, topK, namespace) ==
    IF backend = "pinecone"
    THEN remoteQuery(store.index, vector, topK, namespace)
    ELSE scanQuery(store.vector_chunks, kbs, vector, topK, namespace)

\* deleteByIds(ids, namespace): deleteMany of the namespace in the remote
\* index; without it, deleteMany({ where: { vectorId: { in: ids } } })
deleteByIds(backend, store, ids, namespace) ==
    IF backend = "pinecone"
    THEN [store EXCEPT !.index = {e \in @ : ~(e.namespace = orDefault(namespace) /\ e.id \in ids)}]
    ELSE [store EXCEPT !.vector_chunks = SelectSeq(@, LAMBDA r : r.vectorId \notin ids)]

\* deleteNamespace(namespace)
deleteNamespace(backend, store, kbs, namespace) ==
    IF backend = "pinecone"
    THEN [store EXCEPT !.index = {e \in @ : e.namespace # namespace}]
    ELSE [store EXCEPT !.vector_chunks =
             SelectSeq(@, LAMBDA r : kbs[r.knowledgeBaseId].agentId # agentIdOf(namespace))]

(***************************************************************************)
(* The same calls made in a deployment of each backend: ingestion runs     *)
(* that succeed, knowledge-base deletions, and the calls of VectorService  *)
(* and KBService.search.                                                   *)
(***************************************************************************)
Namespaces == {NamespaceOf(a) : a \in AgentIds}

VecA == VendorVector(<<1, 0>>)
VecB == VendorVector(<<3, 4>>)
VecC == VendorVector(<<0, 1>>)
VecD == VendorVector(<<1, 0, 0>>)

\* the embeddings the vendor gives for the chunks of one file
IngestPlans == {<<VecA>>, <<VecB, VecA>>, <<VecC, VecA, VecA>>, <<VecA, VecD>>}

\* the files of agent ag2 have two chunks
PlansOf(kbId) == IF kbId = "k1" THEN IngestPlans ELSE {<<VecB, VecA>>}

QueryVectors == {VecA, VecB}
TopKs == {0, 1, 2, 5}
IdSets == {{"k1-chunk-0"}, {"k2-chunk-0"}, {"k1-chunk-0", "k2-chunk-0"}}

chunkTextOf(kbId, i) == kbId \o " part " \o ToString(i)

\* the rows and the items processFile makes of a file whose chunks get `plan`
planRows(kbId, plan) ==
    [n \in 1..Len(plan) |-> ChunkRow(kbId, n - 1, chunkTextOf(kbId, n - 1), plan[n])]
planItems(kbId, plan) ==
    [n \in 1..Len(plan) |-> VectorItem(vectorIdOf(kbId, n - 1), plan[n])]

VectorRequest(kind, vector, topK, namespace, ids) ==
    [kind |-> kind, vector |-> vector, topK |-> topK, namespace |-> namespace, ids |-> ids]

VecFrame == UNCHANGED <<dbVars, usePinecone, kRun, kRuns, cpc, chatVars, sent, execVars, events, llmLog>>

\* a run of processFile(kbId) in which no step fails
VecIngest ==
    /\ \E kbId \in KbIds :
       \E plan \in PlansOf(kbId) :
          LET kb == knowledge_bases[kbId]
          IN  /\ kb # NoKb /\ kb.status = "uploaded"
              /\ stores' = [b \in Backends |->
                               upsert(b, [stores[b] EXCEPT !.vector_chunks = @ \o planRows(kbId, plan)],
                                      planItems(kbId, plan), NamespaceOf(kb.agentId))]
              /\ knowledge_bases' = [knowledge_bases EXCEPT ![kbId].status = "indexed",
                                                            ![kbId].chunkCount = Len(plan)]
              /\ req' = VectorRequest("ingest", NoEmbedding, 0, NamespaceOf(kb.agentId), {})
    /\ out' = [b \in Backends |-> NoOut]
    /\ VecFrame

\* vectorService.upsert([{ id, values }], namespace) for a vector of a knowledge base
VecUpsert ==
    /\ \E kbId \in KbIds, vector \in {VecB} :
          LET kb == knowledge_bases[kbId]
              namespace == NamespaceOf(kb.agentId)
              item == VectorItem(vectorIdOf(kbId, 0), vector)
          IN  /\ kb # NoKb
              /\ stores' = [b \in Backends |-> upsert(b, stores[b], <<item>>, namespace)]
              /\ req' = VectorRequest("upsert", vector, 0, namespace, {item.id})
    /\ out' = [b \in Backends |-> NoOut]
    /\ UNCHANGED knowledge_bases
    /\ VecFrame

\* vectorService.deleteByIds(ids, namespace)
VecDeleteByIds ==
    /\ \E ids \in IdSets, namespace \in Namespaces :
          /\ stores' = [b \in Backends |-> deleteByIds(b, stores[b], ids, namespace)]
          /\ req' = VectorRequest("deleteByIds", NoEmbedding, 0, namespace, ids)
    /\ out' = [b \in Backends |-> NoOut]
    /\ UNCHANGED knowledge_bases
    /\ VecFrame

\* vectorService.deleteNamespace(namespace)
VecDeleteNamespace ==
    /\ \E namespace \in Namespaces :
          /\ stores' = [b \in Backends |-> deleteNamespace(b, stores[b], knowledge_bases, namespace)]
          /\ req' = VectorRequest("deleteNamespace", NoEmbedding, 0, namespace, {})
    /\ out' = [b \in Backends |-> NoOut]
    /\ UNCHANGED knowledge_bases
    /\ VecFrame

\* DELETE /kb/:id for a stored knowledge base
VecDeleteKb ==
    /\ \E kbId \in KbIds :
          /\ knowledge_bases[kbId] # NoKb
          /\ req' = VectorRequest("deleteKb", NoEmbedding, 0,
                                  NamespaceOf(knowledge_bases[kbId].agentId), {})
          /\ knowledge_bases' = [knowledge_bases EXCEPT ![kbId] = NoKb]
          /\ stores' = [b \in Backends |->
                           [stores[b] EXCEPT !.vector_chunks = cascadeKb(@, kbId)]]
    /\ out' = [b \in Backends |-> NoOut]
    /\ VecFrame

\* vectorService.query(vector, topK, namespace)
VecQuery ==
    /\ \E vector \in QueryVectors, topK \in TopKs, namespace \in Namespaces :
          /\ out' = [b \in Backends |->
                        query(b, stores[b], knowledge_bases, vector, topK, namespace)]
          /\ req' = VectorRequest("query", vector, topK, namespace, {})
    /\ UNCHANGED <<knowledge_bases, stores>>
    /\ VecFrame

\* prisma.vectorChunk.findFirst({ where: { vectorId } }) for each match;
\* a match without a row is left out
RECURSIVE fetchTexts(_, _)
fetchTexts(rows, matches) ==
    IF matches = <<>> THEN <<>>
    ELSE LET found == SelectSeq(rows, LAMBDA r : r.vectorId = Head(matches).id)
         IN  (IF found = <<>> THEN <<>>
              ELSE <<[text |-> Head(found).text, score |-> Head(matches).score]>>)
             \o fetchTexts(rows, Tail(matches))

\* KBService.search(agentId, query, topK), the query's embedding being `vector`
search(backend, store, kbs, agentId, vector, topK) ==
    LET matches == query(backend, store, kbs, vector, topK, NamespaceOf(agentId))
    IN  IF matches.raised THEN matches
        ELSE QueryReturns(fetchTexts(store.vector_chunks, matches.value))

\* POST /kb/:agentId/search
VecSearch ==
    /\ \E vector \in QueryVectors, agentId \in AgentIds :
          /\ out' = [b \in Backends |->
                        search(b, stores[b], knowledge_bases, agentId, vector, 5)]
          /\ req' = VectorRequest("search", vector, 5, NamespaceOf(agentId), {})
    /\ UNCHANGED <<knowledge_bases, stores>>
    /\ VecFrame

\* a row of k1 that was written before column embedding existed
LegacyRow == [ChunkRow("k1", 7, chunkTextOf("k1", 7), NoEmbedding) EXCEPT !.vectorId = "k1-legacy"]

\* the agent each knowledge base was uploaded for
OwnerOf(kbId) == IF kbId = "k1" THEN "ag1" ELSE "ag2"

UploadedKb(agentId) ==
    [agentId |-> agentId, status |-> "uploaded", chunkCount |-> 0, fileType |-> "txt", file |-> ""]

InitVector ==
    /\ actions = ActionIds
    /\ agent_actions = {}
    /\ secrets = [n \in SecretNames |-> AbsentValue]
    /\ env = [n \in SecretNames |-> AbsentValue]
    /\ InitIdle
    /\ knowledge_bases = [k \in KbIds |-> UploadedKb(OwnerOf(k))]
    /\ \E legacy \in {<<>>, <<LegacyRow>>} :
          stores = [b \in Backends |-> [vector_chunks |-> legacy, index |-> {}]]
    /\ usePinecone = FALSE
    /\ kRun = NoRun
    /\ kRuns = <<>>
    /\ out = [b \in Backends |-> NoOut]
    /\ req = VectorRequest("", NoEmbedding, 0, "", {})
    /\ cpc = "idle"

NextVector ==
    \/ VecIngest
    \/ VecUpsert
    \/ VecDeleteByIds
    \/ VecDeleteNamespace
    \/ VecDeleteKb
    \/ VecQuery
    \/ VecSearch

\* the vector index of both deployments under the same calls
SpecVector == InitVector /\ [][NextVector]_vars

(***************************************************************************)
(* parseToolCall on its own: every text of up to MaxSegments segments.     *)
(***************************************************************************)
MaxSegments == 3

\* JSON.parse gave a string, a number or a boolean: it has no properties
DocPrimitive == [kind |-> "primitive", tool |-> Undef, inputs |-> InUndef]

\* what the body of a fenced block may parse to
ParsedDocs ==
    {Malformed, DocNull, DocPrimitive,
     DocObj(JStr("ping"), InObj(NoFields)),
     DocObj(JStr("getWeather"), InObj([NoFields EXCEPT !["city"] = JStr("Paris")])),
     DocObj(JStr("ping"), InUndef),
     DocObj(JStr("ping"), InNull),
     DocObj(JStr("ping"), [InStr EXCEPT !.val = ""]),
     DocObj(JStr(""), InObj(NoFields)),
     DocObj(Undef, InObj(NoFields))}

Segments ==
    {Prose("Let me check.")}
    \cup {Fence("json", doc) : doc \in ParsedDocs}
    \cup {Fence("js", DocObj(JStr("ping"), InObj(NoFields)))}

RECURSIVE TextsOf(_)
TextsOf(n) ==
    IF n = 0 THEN {<<>>}
    ELSE LET shorter == TextsOf(n - 1)
         IN  shorter \cup {Append(t, s) : t \in {x \in shorter : Len(x) = n - 1}, s \in Segments}

\* the vendor's text has arrived
InitParse ==
    /\ actions = ActionIds
    /\ agent_actions = {}
    /\ secrets = [n \in SecretNames |-> AbsentValue]
    /\ env = [n \in SecretNames |-> AbsentValue]
    /\ InitIdle
    /\ InitNoKB
    /\ req \in {[kind |-> "parse", content |-> t] : t \in TextsOf(MaxSegments)}
    /\ cpc = "parse"

\* const toolCall = this.parseToolCall(content)
Parse ==
    /\ cpc = "parse"
    /\ response' = LLMResponse(req.content)
    /\ cpc' = "parsed"
    /\ UNCHANGED <<dbVars, kbVars, req, catalog, sent, execVars, events, llmLog>>

NextParse == Parse

\* one call of parseToolCall, for every text
SpecParse == InitParse /\ [][NextParse]_vars

(***************************************************************************)
(* Executions of stored actions one after the other, the rows of table     *)
(* secrets being rewritten or removed in between.                          *)
(***************************************************************************)
MaxExecutions == 2
MaxSecretWrites == 2

RotatedValue == "r0tated-token"

\* requests whose inputs pass validation, for the two actions that apply
\* secret-pattern auth entries
SecretRequests ==
    {[kind |-> "execute", agentId |-> "", actionId |-> "a1",
      inputs |-> InObj([NoFields EXCEPT !["city"] = JStr("Paris")])],
     [kind |-> "execute", agentId |-> "", actionId |-> "a2",
      inputs |-> InObj([NoFields EXCEPT !["city"] = JObj, !["count"] = JNum("42")])]}

\* the rewrites and removals, and the executions, so far
SecretWrites == Cardinality({p \in 1..Len(events) : events[p].e \in {"secretSet", "secretDelete"}})
Executions == Cardinality({p \in 1..Len(events) : events[p].e = "execute"})

InitSecrets ==
    /\ actions = ActionIds
    /\ agent_actions = {}
    /\ secrets = [n \in SecretNames |-> encrypt(SecretValue)]
    /\ env \in {[n \in SecretNames |-> IF n = "API_TOKEN" THEN v ELSE AbsentValue] :
                   v \in {AbsentValue, EnvValue}}
    /\ InitIdle
    /\ InitNoKB
    /\ req \in SecretRequests
    /\ cpc = "apiExecute"

\* the next POST /actions/:id/execute arrives after the last was answered
ExecuteArrives ==
    /\ cpc = "done"
    /\ Executions < MaxExecutions
    /\ req' \in SecretRequests
    /\ cpc' = "apiExecute"
    /\ UNCHANGED <<dbVars, kbVars, chatVars, sent, execVars, events, llmLog>>

\* the row of a secret is rewritten with a new encryptedValue
SecretSet ==
    /\ cpc = "done"
    /\ SecretWrites < MaxSecretWrites
    /\ Executions < MaxExecutions
    /\ \E name \in SecretNames :
          /\ secrets[name] # encrypt(RotatedValue)
          /\ secrets' = [secrets EXCEPT ![name] = encrypt(RotatedValue)]
          /\ events' = Append(events, Event("secretSet", name, 0))
    /\ UNCHANGED <<actions, agent_actions, env, kbVars, req, cpc, chatVars, sent, execVars, llmLog>>

\* the row of a secret is removed
SecretDelete ==
    /\ cpc = "done"
    /\ SecretWrites < MaxSecretWrites
    /\ Executions < MaxExecutions
    /\ \E name \in SecretNames :
          /\ secrets[name] # AbsentValue
          /\ secrets' = [secrets EXCEPT ![name] = AbsentValue]
          /\ events' = Append(events, Event("secretDelete", name, 0))
    /\ UNCHANGED <<actions, agent_actions, env, kbVars, req, cpc, chatVars, sent, execVars, llmLog>>

NextSecrets ==
    \/ ExecuteArrives
    \/ SecretSet
    \/ SecretDelete
    \/ ApiExecute
    \/ ApiRespond
    \/ ApiCatch
    \/ ExecNext

\* executions with the secret store changing between them
SpecSecrets == InitSecrets /\ [][NextSecrets]_vars

(***************************************************************************)
(* Two POST /kb/:id/build-embeddings requests for one knowledge base,      *)
(* served side by side: the handlers interleave at their awaits.  kRuns    *)
(* maps a handler to its position and locals.                              *)
(***************************************************************************)
RunIds == {1, 2}

BuildRun(kbId) ==
    [pc |-> "select", kbId |-> kbId, chunks |-> <<>>, i |-> 0, vectorItems |-> <<>>, error |-> ""]

RunFrame == UNCHANGED <<dbVars, usePinecone, kRun, out, req, cpc, chatVars, sent, execVars, llmLog>>

Goto(r, pc) == kRuns' = [kRuns EXCEPT ![r].pc = pc]
RunThrows(r, error, handler) == kRuns' = [kRuns EXCEPT ![r].pc = handler, ![r].error = error]

\* handler r writes a status
RunWrites(r, status) ==
    /\ knowledge_bases' = setStatus(knowledge_bases, kRuns[r].kbId, status)
    /\ events' = Append(events, Event(status, kRuns[r].kbId, r))

\* SELECT * FROM knowledge_bases WHERE id = $1
RunSelect(r) ==
    /\ kRuns[r].pc = "select"
    /\ Exists(kRuns[r].kbId)
    /\ Goto(r, "ctlMark")
    /\ UNCHANGED <<knowledge_bases, stores, events>>
    /\ RunFrame

\* UPDATE knowledge_bases SET status = 'processing'
RunMarkProcessing(r) ==
    /\ kRuns[r].pc = "ctlMark"
    /\ RunWrites(r, "processing")
    /\ Goto(r, "pfFind")
    /\ UNCHANGED stores
    /\ RunFrame

\* processFile: prisma.knowledgeBase.findUnique
RunFind(r) ==
    /\ kRuns[r].pc = "pfFind"
    /\ Exists(kRuns[r].kbId)
    /\ Goto(r, "pfMark")
    /\ UNCHANGED <<knowledge_bases, stores, events>>
    /\ RunFrame

\* processFile: update({ data: { status: 'processing' } })
RunProcessMark(r) ==
    /\ kRuns[r].pc = "pfMark"
    /\ RunWrites(r, "processing")
    /\ Goto(r, "pfExtract")
    /\ UNCHANGED stores
    /\ RunFrame

\* processFile: extractText, chunkText
RunExtract(r) ==
    /\ kRuns[r].pc = "pfExtract"
    /\ LET chunks == chunkText(knowledge_bases[kRuns[r].kbId].file)
       IN  kRuns' = [kRuns EXCEPT ![r].chunks = chunks,
                                  ![r].pc = IF chunks = <<>> THEN "pfUpsert" ELSE "pfChunk"]
    /\ UNCHANGED <<knowledge_bases, stores, events>>
    /\ RunFrame

\* processFile: one iteration of the loop: generateEmbeddings, vectorChunk.create
RunChunk(r) ==
    /\ kRuns[r].pc = "pfChunk"
    /\ LET kbId == kRuns[r].kbId
           i == kRuns[r].i
           chunk == kRuns[r].chunks[i + 1]
           embedding == generateEmbeddings(JStr(chunk), "openai", JStr("sk-key"),
                                           VendorGives(<<1, 0>>)).value
           rows == stores[Backend].vector_chunks
       IN  IF chunkExists(rows, kbId, i)
           THEN /\ RunThrows(r, "Unique constraint failed", "pfCatch")
                /\ UNCHANGED stores
           ELSE /\ stores' = [stores EXCEPT ![Backend].vector_chunks =
                                 Append(rows, ChunkRow(kbId, i, chunk, embedding))]
                /\ kRuns' = [kRuns EXCEPT
                                ![r].i = i + 1,
                                ![r].vectorItems = Append(@, VectorItem(vectorIdOf(kbId, i), embedding)),
                                ![r].pc = IF i + 1 < Len(kRuns[r].chunks) THEN "pfChunk" ELSE "pfUpsert"]
    /\ UNCHANGED <<knowledge_bases, events>>
    /\ RunFrame

\* processFile: vectorService.upsert(vectorItems, namespace)
RunUpsert(r) ==
    /\ kRuns[r].pc = "pfUpsert"
    /\ \/ /\ stores' = [stores EXCEPT ![Backend] =
                           upsert(Backend, @, kRuns[r].vectorItems,
                                  NamespaceOf(knowledge_bases[kRuns[r].kbId].agentId))]
          /\ Goto(r, "pfIndexed")
       \/ \* the remote index rejects the call
          /\ usePinecone
          /\ RunThrows(r, "PineconeConnectionError", "pfCatch")
          /\ UNCHANGED stores
    /\ UNCHANGED <<knowledge_bases, events>>
    /\ RunFrame

\* processFile: update({ data: { status: 'indexed', chunkCount: chunks.length } })
RunMarkIndexed(r) ==
    /\ kRuns[r].pc = "pfIndexed"
    /\ knowledge_bases' = [setStatus(knowledge_bases, kRuns[r].kbId, "indexed")
                              EXCEPT ![kRuns[r].kbId].chunkCount = Len(kRuns[r].chunks)]
    /\ events' = Append(events, Event("indexed", kRuns[r].kbId, r))
    /\ Goto(r, "reselect")
    /\ UNCHANGED stores
    /\ RunFrame

\* SELECT ...; res.json({ success: true, chunkCount })
RunRespond(r) ==
    /\ kRuns[r].pc = "reselect"
    /\ Goto(r, "done")
    /\ UNCHANGED <<knowledge_bases, stores, events>>
    /\ RunFrame

\* processFile's catch: update({ data: { status: 'failed' } }); throw error
RunProcessCatch(r) ==
    /\ kRuns[r].pc = "pfCatch"
    /\ RunWrites(r, "failed")
    /\ Goto(r, "kbCatch")
    /\ UNCHANGED stores
    /\ RunFrame

\* the handler's catch: UPDATE ... status = 'failed'; answered with 500
RunCatch(r) ==
    /\ kRuns[r].pc = "kbCatch"
    /\ RunWrites(r, "failed")
    /\ Goto(r, "done")
    /\ UNCHANGED stores
    /\ RunFrame

\* a file of two chunks has been uploaded for ag1, and a file without text
InitBuilds ==
    /\ actions = ActionIds
    /\ agent_actions = {}
    /\ secrets = [n \in SecretNames |-> AbsentValue]
    /\ env = [n \in SecretNames |-> AbsentValue]
    /\ InitIdle
    /\ \E text \in {LongText, ""} :
          knowledge_bases = [k \in KbIds |->
                                IF k = "k1"
                                THEN [agentId |-> "ag1", status |-> "uploaded", chunkCount |-> 0,
                                      fileType |-> "txt", file |-> text]
                                ELSE NoKb]
    /\ stores = [b \in Backends |-> EmptyStore]
    /\ usePinecone \in BOOLEAN
    /\ kRun = NoRun
    /\ kRuns = [r \in RunIds |-> BuildRun("k1")]
    /\ out = NoOut
    /\ req = KbRequest("build", "", "k1")
    /\ cpc = "builds"

NextBuilds ==
    \E r \in RunIds :
       \/ RunSelect(r)
       \/ RunMarkProcessing(r)
       \/ RunFind(r)
       \/ RunProcessMark(r)
       \/ RunExtract(r)
       \/ RunChunk(r)
       \/ RunUpsert(r)
       \/ RunMarkIndexed(r)
       \/ RunRespond(r)
       \/ RunProcessCatch(r)
       \/ RunCatch(r)

\* two ingestion runs of one knowledge base at once
SpecBuilds == InitBuilds /\ [][NextBuilds]_vars

(***************************************************************************)
(* Ingestion followed by retrieval in the deployment without the remote    *)
(* index: the requests of SpecKB and POST /kb/:agentId/search, for an      *)
(* agent whose file of two chunks has been uploaded.                       *)
(***************************************************************************)
SearchQueries == {"lorem ipsum"}

\* KBController.search, KBService.search(agentId, query, topK || 5)
KbSearch ==
    /\ cpc \in {"idle", "done"}
    /\ \E agentId \in AgentIds, text \in SearchQueries, vendor \in KbVendorOutcomes :
          LET provider == IF AgentRow(agentId).llmProvider = "google" THEN "google" ELSE "openai"
              embedding == generateEmbeddings(JStr(text), provider, JStr("sk-key"), vendor).value
              results == search(Backend, stores[Backend], knowledge_bases, agentId, embedding, 5)
          IN  /\ req' = KbRequest("search", agentId, "")
              /\ out' = results
              /\ Send(IF results.raised THEN 500 ELSE 200, results.error, NoMessage, NoResult)
    /\ UNCHANGED <<dbVars, knowledge_bases, stores, usePinecone, kRun, kRuns, chatVars,
                   execVars, events, llmLog>>

InitRetrieval ==
    /\ actions = ActionIds
    /\ agent_actions = {}
    /\ secrets = [n \in SecretNames |-> AbsentValue]
    /\ env = [n \in SecretNames |-> AbsentValue]
    /\ catalog = {}
    /\ response = NoResponseYet
    /\ sent = [NoSent EXCEPT !.status = 200]
    /\ epc = "idle"
    /\ eActionId = ""
    /\ eInputs = InUndef
    /\ eRequest = NoRequest
    /\ attempt = 0
    /\ lastError = NoError
    /\ eResult = NoResult
    /\ events = <<Event("upload", "k1", AgentIndex("ag1"))>>
    /\ llmLog = <<>>
    /\ knowledge_bases = [k \in KbIds |->
                             IF k = "k1"
                             THEN [agentId |-> "ag1", status |-> "uploaded", chunkCount |-> 0,
                                   fileType |-> "txt", file |-> LongText]
                             ELSE NoKb]
    /\ stores = [b \in Backends |-> EmptyStore]
    /\ usePinecone = FALSE
    /\ kRun = NoRun
    /\ kRuns = <<>>
    /\ out = NoOut
    /\ req = KbRequest("upload", "ag1", "")
    /\ cpc = "done"

NextRetrieval ==
    \/ NextKB
    \/ KbSearch

\* ingestion and search over the rows it stored
SpecRetrieval == InitRetrieval /\ [][NextRetrieval]_vars

(***************************************************************************)
(* A chat turn with DELETE /actions/:id served by another handler while    *)
(* the turn is between two of its awaits.                                  *)
(***************************************************************************)
MaxDeletes == 1

Deletes == Cardinality({p \in 1..Len(events) : events[p].e = "deleteAction"})

\* ActionController.delete, run to its end between two steps of the turn:
\* the row and, by the cascade, its bindings are gone
DeleteDuringTurn ==
    /\ cpc \in {"loadAgent", "loadActions", "first", "dispatch", "exec"}
    /\ Deletes < MaxDeletes
    /\ \E actionId \in actions :
          /\ actions' = actions \ {actionId}
          /\ agent_actions' = cascadeAction(agent_actions, actionId)
          /\ events' = Append(events, Event("deleteAction", actionId, 0))
    /\ UNCHANGED <<secrets, env, kbVars, req, cpc, chatVars, sent, execVars, llmLog>>

\* a chat request for ag1, every action bound and enabled, every secret stored
InitTurnDelete ==
    /\ actions = ActionIds
    /\ secrets = [n \in SecretNames |-> encrypt(SecretValue)]
    /\ env = [n \in SecretNames |-> AbsentValue]
    /\ agent_actions = {Binding("ag1", a, TRUE) : a \in ActionIds}
    /\ req = [kind |-> "chat", agentId |-> "ag1", actionId |-> "", inputs |-> InUndef]
    /\ cpc = "loadAgent"
    /\ InitIdle
    /\ InitNoKB

NextTurnDelete ==
    \/ Next
    \/ DeleteDuringTurn

\* one chat turn and a concurrent deletion of an action
SpecTurnDelete == InitTurnDelete /\ [][NextTurnDelete]_vars

(***************************************************************************)
(* Properties.                                                             *)
(***************************************************************************)
EventsOf(e) == SelectSeq(events, LAMBDA ev : ev.e = e)

\* calls of LLMService.chat, calls of execute and HTTP attempts made so far
LlmCalls == Len(llmLog)
ExecCalls == Len(EventsOf("execute"))
HttpAttempts == Len(EventsOf("http"))

\* the statuses of the HTTP attempts, in order (NoResponse: none received)
HttpStatuses == [i \in 1..HttpAttempts |-> EventsOf("http")[i].n]

\* the tool call names an action of the catalog loaded for this turn
NamesCatalogAction(toolCall) ==
    /\ toolCall.present
    /\ \E a \in catalog : toolCall.tool = JStr(ActionRow(a).name)

ChatAnswered == req.kind = "chat" /\ cpc = "done" /\ sent.status = 200

\* C1: a chat turn calls execute at most once and LLMService.chat at most
\* twice; the second call is made with an empty tool list, so its system
\* instruction is the bare system prompt, and whatever the second completion
\* contains the turn ends there.
C1_AtMostOneAction ==
    /\ ExecCalls <= 1
    /\ LlmCalls <= 2
    /\ LlmCalls = 2 =>
          /\ llmLog[2].tools = <<>>
          /\ llmLog[2].instruction = AgentRow(req.agentId).systemPrompt
          /\ cpc = "done"
          /\ ~ENABLED Next

\* C1 witness: the second completion held a well-formed call of an enabled
\* action and the turn still ended with one execution and two calls.
C1_Witness ==
    /\ ChatAnswered
    /\ LlmCalls = 2
    /\ ExecCalls = 1
    /\ NamesCatalogAction(parseToolCall(llmLog[2].content))

\* C2: at the end of a turn that reached the first completion, the number
\* of LLMService.chat calls is 1 when execute was not called and 2 when it
\* was called once.
C2_ProviderCallCount ==
    (req.kind = "chat" /\ cpc = "done" /\ LlmCalls >= 1) =>
        /\ ExecCalls = 0 => LlmCalls = 1
        /\ ExecCalls = 1 => LlmCalls = 2

\* C3: execute is called only for a tool call of the first completion that
\* names an action of the loaded catalog, and with that action's id; a
\* first completion whose tool call names no catalog action (or that has
\* none) ends the turn with status 200 after one LLMService.chat call, no
\* execute call, and the first completion's content as the answer.
C3_OnlyCatalogActions ==
    /\ ExecCalls >= 1 =>
          /\ NamesCatalogAction(response.toolCall)
          /\ eActionId \in catalog
          /\ response.toolCall.tool = JStr(ActionRow(eActionId).name)
          /\ response = LLMResponse(llmLog[1].content)
    /\ (req.kind = "chat" /\ cpc = "done" /\ LlmCalls >= 1 /\ ~llmLog[1].threw
        /\ ~NamesCatalogAction(parseToolCall(llmLog[1].content))) =>
          /\ ExecCalls = 0
          /\ LlmCalls = 1
          /\ sent.status = 200
          /\ sent.message.content = llmLog[1].content

\* C3 witness: the first completion called a stored action that is not
\* enabled for the agent, and the turn answered with the raw content.
C3_Witness ==
    /\ ChatAnswered
    /\ response.toolCall.present
    /\ response.toolCall.tool = JStr("ping")
    /\ "a4" \in actions
    /\ "a4" \notin catalog
    /\ catalog # {}
    /\ ExecCalls = 0

\* positions in events of the events of kind e
IndexesOf(e) == {i \in 1..Len(events) : events[i].e = e}

Returned == epc = "returned"

\* C4: execute never raises: it never ends by throwing to its caller.
C4_NeverRaises == epc # "raised"

\* the delays slept so far, in order
Delays == [i \in 1..Len(EventsOf("sleep")) |-> EventsOf("sleep")[i].n]

\* C5: at most 2 HTTP attempts; a second attempt is made exactly when the
\* first failed with a response status >= 500, after one sleep of 1000 ms
\* placed between the two attempts; any other first failure and any second
\* failure end the execution.  500 then 200 gives 2 attempts and success,
\* 404 gives 1 attempt and failure.
C5_RetryPolicy ==
    /\ HttpAttempts <= 2
    /\ HttpAttempts = 2 =>
          /\ HttpStatuses[1] >= 500
          /\ Delays = <<1000>>
          /\ \E i, j, k \in 1..Len(events) :
                /\ i < j /\ j < k
                /\ events[i].e = "http" /\ events[j].e = "sleep" /\ events[k].e = "http"
          /\ Returned
    /\ HttpAttempts = 1 =>
          /\ HttpStatuses[1] >= 500 => epc = "backoff" \/ (epc = "http" /\ Delays = <<1000>>)
          /\ HttpStatuses[1] < 500 => Returned /\ Delays = <<>>
    /\ HttpAttempts = 0 => Delays = <<>>
    /\ Returned /\ HttpAttempts >= 1 =>
          eResult.success = (HttpStatuses[HttpAttempts] \in 200..299)
    /\ Returned /\ HttpStatuses = <<500, 200>> => eResult.success
    /\ HttpStatuses = <<404>> => Returned /\ ~eResult.success

\* C5 witness: responses 500 then 200 ended in success after two attempts.
C5_Witness ==
    /\ Returned
    /\ HttpStatuses = <<500, 200>>
    /\ eResult.success
    /\ Delays = <<1000>>

\* the declared schema holds of an input map: every declared variable is
\* present, not null, and of the declared kind
SchemaHolds(variables, inputs) ==
    /\ inputs.kind = "object"
    /\ \A i \in 1..Len(variables) :
          LET value == inputs.fields[variables[i].name]
          IN  /\ value.kind \notin {"undefined", "null"}
              /\ value.kind = variables[i].type

SecretPattern(name) == "{{" \o name \o "}}"

\* name has a row in the secret store; name is set to a non-empty value in env
Stored(name) == secrets[name] # AbsentValue
EnvNonEmpty(name) == env[name] \notin {AbsentValue, ""}

\* the secret names that the auth entries applied for this action refer to
AppliedSecretNames(row) ==
    {n \in SecretNames :
        /\ row.integration.authEnabled
        /\ \E i \in 1..Len(row.integration.authConfig) :
              /\ row.integration.authConfig[i].value = SecretPattern(n)
              /\ row.integration.authConfig[i].type \in {"header", "query"}}

ValidationMessages ==
    {"Missing required variable", "must be a number", "must be a boolean",
     "must be a string", "must be an object", "must be an array"}

\* C6: an unknown action id, an input map failing the declared schema, and
\* a missing secret each end execute with success=false, the matching
\* error string and no HTTP attempt; a failure before any HTTP attempt
\* carries an error string; validation precedes every secret lookup and
\* every secret lookup precedes the first HTTP attempt.
C6_FailsBeforeHttp ==
    /\ (Returned /\ eActionId \notin actions) =>
          /\ eResult = ActionNotFound
          /\ HttpAttempts = 0
    /\ (Returned /\ eActionId \in actions /\ eInputs.kind = "object"
        /\ ~SchemaHolds(ActionRow(eActionId).variables, eInputs)) =>
          /\ ~eResult.success
          /\ eResult.error.msg \in ValidationMessages
          /\ \E i \in 1..Len(ActionRow(eActionId).variables) :
                eResult.error.arg = ActionRow(eActionId).variables[i].name
          /\ HttpAttempts = 0
          /\ IndexesOf("secret") = {}
    /\ (Returned /\ eActionId \in actions
        /\ SchemaHolds(ActionRow(eActionId).variables, eInputs)
        /\ \E n \in AppliedSecretNames(ActionRow(eActionId)) :
              ~Stored(n) /\ ~EnvNonEmpty(n)) =>
          /\ ~eResult.success
          /\ eResult.error.msg = "Secret not found"
          /\ eResult.error.arg \in AppliedSecretNames(ActionRow(eActionId))
          /\ ~Stored(eResult.error.arg) /\ ~EnvNonEmpty(eResult.error.arg)
          /\ HttpAttempts = 0
    /\ (Returned /\ ~eResult.success /\ HttpAttempts = 0) =>
          /\ eResult.error.msg \notin {AbsentValue, ""}
          /\ eInputs.kind = "object" =>
                eResult.error.msg \in
                    ValidationMessages \cup {"Action not found", "Secret not found"}
    /\ \A i \in IndexesOf("secret") :
          /\ \E j \in IndexesOf("validate") : j < i
          /\ \A k \in IndexesOf("http") : i < k
    /\ \A k \in IndexesOf("http") : \E j \in IndexesOf("validate") : j < k

\* C6 witness: valid inputs, a secret in neither the store nor env, and
\* execute returned the secret-not-found failure after looking it up.
C6_Witness ==
    /\ Returned
    /\ eActionId = "a1"
    /\ SchemaHolds(ActionRow(eActionId).variables, eInputs)
    /\ eResult.error = [msg |-> "Secret not found", arg |-> "API_TOKEN"]
    /\ IndexesOf("secret") # {}
    /\ HttpAttempts = 0

\* the verdict validateInputs gave in this execution: TRUE when it did not throw
Validated == IndexesOf("validate") # {}
Accepted == EventsOf("validate")[1].a = ""

\* two input maps agree on every declared variable
AgreeOnDeclared(variables, inputs, other) ==
    \A i \in 1..Len(variables) :
        inputs.fields[variables[i].name] = other.fields[variables[i].name]

\* C7: validateInputs accepts an input map exactly when the declared schema
\* holds of it, and its verdict is the same for every input map that agrees
\* on the declared variables.
C7_ValidateInputs ==
    (Validated /\ eInputs.kind = "object") =>
        LET variables == ActionRow(eActionId).variables
        IN  /\ Accepted <=> SchemaHolds(variables, eInputs)
            /\ Accepted => epc # "validate" /\ (Returned => eResult.error.msg \notin ValidationMessages)
            /\ ~Accepted => Returned /\ ~eResult.success
            /\ \A other \in InputMaps :
                  AgreeOnDeclared(variables, eInputs, other) =>
                      ((validateInputs(variables, other) = NoError) <=> Accepted)

\* C7 witness: a list given for a declared object was rejected.
C7_Witness ==
    /\ Validated
    /\ eActionId = "a2"
    /\ eInputs.kind = "object"
    /\ eInputs.fields["city"] = JArr
    /\ eInputs.fields["count"] = JNum("42")
    /\ ~Accepted
    /\ eResult.error = [msg |-> "must be an object", arg |-> "city"]

\* the status of the last HTTP attempt's response (AbsentStatus: none received)
LastStatus == IF HttpAttempts = 0 THEN AbsentStatus ELSE HttpStatuses[HttpAttempts]

\* C10: a failure result has success=false, an error message, no echoed
\* request, and as status the status of the last attempt's response; the
\* status is absent when that attempt received no response and when no
\* attempt was made.
C10_FailureStatus ==
    (Returned /\ ~eResult.success) =>
        /\ eResult.error.msg \notin {AbsentValue, ""}
        /\ ~eResult.hasRequest
        /\ eResult.request = NoEcho
        /\ HttpAttempts = 0 => eResult.status = AbsentStatus
        /\ HttpAttempts >= 1 =>
              /\ LastStatus = NoResponse => eResult.status = AbsentStatus
              /\ LastStatus # NoResponse => eResult.status = LastStatus

\* C10 witness: two 5xx responses, and the failure carries the second status.
C10_Witness ==
    /\ Returned
    /\ HttpStatuses = <<500, 503>>
    /\ ~eResult.success
    /\ eResult.status = 503

\* name consists of upper-case letters and underscores only
IsUpperSnakeName(name) ==
    /\ name # ""
    /\ \A i \in 1..Len(name) : CharAt(name, i) \in UpperSnakeChars

\* the whole template is {{NAME}} with NAME in upper snake case
IsExactSecretTemplate(template) ==
    /\ Len(template) >= 5
    /\ IsUpperSnakeName(SubSeq(template, 3, Len(template) - 2))
    /\ template = SecretPattern(SubSeq(template, 3, Len(template) - 2))

\* the auth entries buildRequest applies for this action
AppliedEntries(row) ==
    IF row.integration.authEnabled
    THEN {row.integration.authConfig[i] : i \in 1..Len(row.integration.authConfig)}
    ELSE {}

\* What resolveValue does for every auth entry applied in this execution,
\* with EnvSet(name) saying when the environment variable counts as set.
ResolveValueContract(EnvSet(_)) ==
    (IndexesOf("built") # {}) =>
        \A entry \in AppliedEntries(ActionRow(eActionId)) :
            LET r == resolveValue(entry.value, eInputs, secrets, env)
                name == SubSeq(entry.value, 3, Len(entry.value) - 2)
            IN  IF IsExactSecretTemplate(entry.value)
                THEN /\ r.looked = <<name>>
                     /\ Stored(name) => r.ok /\ encrypt(r.out) = secrets[name]
                     /\ (~Stored(name) /\ EnvSet(name)) => r.ok /\ r.out = env[name]
                     /\ (~Stored(name) /\ ~EnvSet(name)) =>
                           ~r.ok /\ r.out = "Secret not found" /\ r.arg = name
                     /\ \A other \in ApiInputs :
                           resolveValue(entry.value, other, secrets, env) = r
                ELSE /\ r.looked = <<>>
                     /\ r.ok = MustacheRender(entry.value, eInputs).ok
                     /\ r.out = MustacheRender(entry.value, eInputs).out

\* the request built in this execution carries the resolved values, and the
\* store was consulted for exact secret templates only
BuiltFromResolved ==
    /\ \A i \in IndexesOf("secret") :
          \E entry \in AppliedEntries(ActionRow(eActionId)) :
              /\ IsExactSecretTemplate(entry.value)
              /\ entry.value = SecretPattern(events[i].a)
    /\ eRequest # NoRequest =>
          \A entry \in AppliedEntries(ActionRow(eActionId)) :
              LET r == resolveValue(entry.value, eInputs, secrets, env)
              IN  /\ r.ok
                  /\ entry.type = "header" => eRequest.headers[entry.key] = r.out
                  /\ entry.type = "query" => eRequest.params[entry.key] = r.out
                  /\ IsExactSecretTemplate(entry.value) =>
                        \E i \in IndexesOf("secret") : entry.value = SecretPattern(events[i].a)

\* C8 as stated: the environment variable is used whenever it is set.
C8_ResolveValueWhenSet ==
    ResolveValueContract(LAMBDA name : env[name] # AbsentValue)

\* C8 amended: resolveValue consults the secret store exactly for a template
\* that is {{NAME}} with NAME of upper-case letters and underscores and
\* nothing around it; it returns the decrypted stored secret when there is
\* one, otherwise the environment variable when set to a non-empty value,
\* otherwise fails with secret not found, whatever the inputs; every other
\* template is rendered against the inputs without a lookup.
C8_ResolveValue ==
    /\ ResolveValueContract(EnvNonEmpty)
    /\ BuiltFromResolved

\* C8 witness: the secret was not stored, the environment held it, and the
\* built request carries the environment's value although the inputs have a
\* property of the same name.
C8_Witness ==
    /\ eActionId = "a1"
    /\ eRequest # NoRequest
    /\ ~Stored("API_TOKEN")
    /\ eRequest.headers["Authorization"] = EnvValue
    /\ eInputs.fields["API_TOKEN"] = JStr("from-inputs")

\* the message of an answered turn that executed an action: the second
\* completion's text, the one tool call and the one execution result
ExecutedTurnMessage ==
    ExecCalls = 1 =>
        /\ Returned
        /\ sent.message.role = "assistant"
        /\ sent.message.content = llmLog[2].content
        /\ sent.message.hasToolCalls
        /\ sent.message.toolCalls = <<parseToolCall(llmLog[1].content)>>
        /\ sent.message.hasToolResults
        /\ sent.message.toolResults = <<eResult>>

\* C9 as stated: a turn that executed no action answers with neither
\* toolCalls nor toolResults, and toolCalls is present exactly when
\* toolResults is.
C9_ToolCallsIffToolResults ==
    ChatAnswered =>
        /\ ExecutedTurnMessage
        /\ ExecCalls = 0 => ~sent.message.hasToolCalls /\ ~sent.message.hasToolResults
        /\ sent.message.hasToolCalls <=> sent.message.hasToolResults

\* C9 amended: a turn that executed an action answers {role: assistant,
\* content: the second completion's text, toolCalls: [the call],
\* toolResults: [the result]}; a turn that executed none answers with the
\* first completion's content and no toolResults, with no toolCalls when
\* the first completion carried no tool call and with toolCalls: [the
\* dropped call] when its call named no catalog action.  toolResults is
\* present only when toolCalls is.
C9_ReturnedMessage ==
    ChatAnswered =>
        /\ ExecutedTurnMessage
        /\ ExecCalls = 0 =>
              /\ sent.message.role = "assistant"
              /\ sent.message.content = llmLog[1].content
              /\ ~sent.message.hasToolResults
              /\ sent.message.toolResults = <<>>
              /\ sent.message.hasToolCalls = parseToolCall(llmLog[1].content).present
              /\ sent.message.hasToolCalls =>
                    sent.message.toolCalls = <<parseToolCall(llmLog[1].content)>>
              /\ ~sent.message.hasToolCalls => sent.message.toolCalls = <<>>
        /\ sent.message.hasToolResults => sent.message.hasToolCalls

\* C9 witness: the action was executed and failed with a 404, and the
\* answer carries the call and that result.
C9_Witness ==
    /\ ChatAnswered
    /\ ExecCalls = 1
    /\ HttpStatuses = <<404>>
    /\ sent.message.toolResults = <<eResult>>
    /\ eResult.status = 404
    /\ sent.message.content \in FinalCompletions

\* the events that concern the binding of actionId to agentId
BindingEvents(agentId, actionId) ==
    SelectSeq(events, LAMBDA ev :
        \/ ev.e \in {"addAction", "removeAction"} /\ ev.a = actionId /\ ev.n = AgentIndex(agentId)
        \/ ev.e = "deleteAction" /\ ev.a = actionId)

\* the last request about the pair was a successful addAction
LastAdded(agentId, actionId) ==
    LET evs == BindingEvents(agentId, actionId)
    IN  evs # <<>> /\ evs[Len(evs)].e = "addAction"

\* C11: the catalog a chat turn loads is exactly the set of actions with an
\* enabled binding to that agent; a pair has at most one binding, so adding
\* twice gives one entry; an action whose binding was removed, or that was
\* deleted, after its last add is in no later catalog.
C11_Catalog ==
    /\ \A r1, r2 \in agent_actions :
          SamePair(r1, r2.agentId, r2.actionId) => r1 = r2
    /\ \A r \in agent_actions : r.actionId \in actions
    /\ (req.kind = "chat" /\ cpc = "first") =>
          /\ catalog = {a \in ActionIds : Binding(req.agentId, a, TRUE) \in agent_actions}
          /\ catalog = {a \in ActionIds : LastAdded(req.agentId, a)}

\* C11 witness: a1 was added twice to ag1, whose binding had been disabled,
\* and the turn of ag1 loaded exactly one entry.
C11_Witness ==
    /\ req.kind = "chat" /\ req.agentId = "ag1" /\ cpc = "first"
    /\ Len(events) >= 2
    /\ events[1] = Event("addAction", "a1", 1)
    /\ events[2] = Event("addAction", "a1", 1)
    /\ catalog = {"a1"}

\* the statuses written to knowledge base kbId, in order ("upload" writes uploaded)
StatusWrites(kbId) ==
    SelectSeq(events, LAMBDA ev :
        ev.a = kbId /\ ev.e \in {"upload", "processing", "indexed", "failed"})

KbStatuses == {"uploaded", "processing", "indexed", "failed"}

\* C12: the status of a knowledge base is one of uploaded, processing,
\* indexed, failed; once indexed was written no later write changes it to
\* processing, failed or uploaded, and once failed was written none changes
\* it to uploaded.
C12_StatusForward ==
    \A kbId \in KbIds :
        LET writes == StatusWrites(kbId)
        IN  /\ Exists(kbId) => knowledge_bases[kbId].status \in KbStatuses
            /\ \A i, j \in 1..Len(writes) :
                  i < j =>
                     /\ writes[i].e = "indexed" => writes[j].e = "indexed"
                     /\ writes[i].e = "failed" => writes[j].e # "upload"

\* the events of the request being served: those from its arrival on
LastBuild == CHOOSE n \in 0..Len(events) :
                /\ n = 0 \/ events[n].e = "build"
                /\ \A m \in (n + 1)..Len(events) : events[m].e # "build"
RunEvents == SubSeq(events, LastBuild + 1, Len(events))

\* the run of the build request being served has written processing
RunStarted ==
    /\ req.kind = "build"
    /\ \E n \in 1..Len(RunEvents) : RunEvents[n].e = "processing"

\* C13: an ingestion run of an existing knowledge base that has ended left
\* the status indexed or failed, never processing: failed with the error
\* returned to the caller when a step failed, indexed when none did.
C13_RunEnds ==
    (RunStarted /\ cpc = "done" /\ Exists(kRun.kbId)) =>
        LET status == knowledge_bases[kRun.kbId].status
        IN  /\ status \in {"indexed", "failed"}
            /\ sent.status = 200 => status = "indexed"
            /\ sent.status = 500 => status = "failed" /\ sent.error # ""

\* a second build request moved an indexed knowledge base of two chunks back
\* to processing and then to failed, no query of the database having rejected
C12_RebuildOfIndexed ==
    \E kbId \in KbIds :
        LET writes == StatusWrites(kbId)
        IN  /\ Len(writes) = 7
            /\ [n \in 1..7 |-> writes[n].e] =
                  <<"upload", "processing", "processing", "indexed",
                    "processing", "processing", "failed">>
            /\ kRun.error = "Unique constraint failed"

\* the key is empty, blank or absent
BlankKey(apiKey) == apiKey.kind # "string" \/ apiKey.val \in {"", "  "}

\* C14 as stated: generateEmbeddings never raises, for any arguments.
C14_NeverRaises ==
    cpc = "embedded" => ~out.raised

\* C14 for texts that are strings: generateEmbeddings never raises and
\* returns a vector; with a blank key it returns the mock vector and asks no
\* vendor; when the vendor fails or the provider is unknown it returns the
\* mock vector; the mock vector is the same for the same text whatever the
\* other arguments; otherwise the vendor's vector is returned.
C14_FallsBackToMock ==
    (cpc = "embedded" /\ req.text.kind = "string") =>
        LET mock == MockVector(simpleHash(req.text.val))
        IN  /\ ~out.raised
            /\ out.value.dimensions > 0
            /\ BlankKey(req.apiKey) => out.value = mock /\ events = <<>>
            /\ (~req.vendor.ok \/ req.provider \notin {"openai", "google"}) => out.value = mock
            /\ (~BlankKey(req.apiKey) /\ req.vendor.ok /\ req.provider \in {"openai", "google"})
                  => out.value = VendorVector(req.vendor.values) /\ Len(events) = 1

\* The vendor failed for a keyed call and the mock vector of the text came
\* back.
C14_VendorFailed ==
    /\ cpc = "embedded"
    /\ req.text = JStr("hello") /\ req.apiKey = JStr("sk-key") /\ req.provider = "google"
    /\ ~req.vendor.ok
    /\ Len(events) = 1
    /\ ~out.raised
    /\ out.value = MockVector(simpleHash("hello"))
    /\ out.value.seed # MockVector(simpleHash("Hello world 42")).seed


(***************************************************************************)
(* Claims about the vector index (SpecVector).                             *)
(***************************************************************************)
ScanResult == out["postgres"]
ScanRows == stores["postgres"].vector_chunks

\* the stored vectors of the request's namespace that have an embedding, in
\* storage order
Eligible ==
    SelectSeq(ScanRows, LAMBDA r : /\ NamespaceOf(OwnerOf(r.knowledgeBaseId)) = req.namespace
                                   /\ r.embedding # NoEmbedding)

ScoreOf(row) == cosineSimilarity(req.vector, row.embedding).score
PlaceOf(id) == CHOOSE n \in 1..Len(Eligible) : Eligible[n].vectorId = id
ReturnedIds == {ScanResult.value[i].id : i \in 1..Len(ScanResult.value)}

IdsOfAgent(agentId) ==
    {vectorIdOf(k, i) : k \in {kb \in KbIds : OwnerOf(kb) = agentId}, i \in 0..2}
TextsOfAgent(agentId) ==
    {chunkTextOf(k, i) : k \in {kb \in KbIds : OwnerOf(kb) = agentId}, i \in 0..2}
RequestAgent == CHOOSE a \in AgentIds : NamespaceOf(a) = req.namespace

\* C16: in both backends a query for namespace agent-A returns only vectors
\* of knowledge bases of agent A, and a knowledge-base search for agent A
\* returns only text of knowledge bases of agent A.
C16_Isolation ==
    \A b \in Backends :
       /\ req.kind = "query" =>
             \A i \in 1..Len(out[b].value) : out[b].value[i].id \in IdsOfAgent(RequestAgent)
       /\ req.kind = "search" =>
             \A i \in 1..Len(out[b].value) : out[b].value[i].text \in TextsOfAgent(RequestAgent)

\* both agents have vectors in both deployments, and a query and a search for
\* ag1 return some
C16_Witness ==
    /\ req.kind \in {"query", "search"}
    /\ req.namespace = NamespaceOf("ag1")
    /\ \A b \in Backends : Len(out[b].value) > 0
    /\ \E n \in 1..Len(stores["postgres"].vector_chunks) :
          /\ stores["postgres"].vector_chunks[n].knowledgeBaseId = "k2"
          /\ stores["postgres"].vector_chunks[n].embedding # NoEmbedding
    /\ \E e \in stores["pinecone"].index : e.namespace = NamespaceOf("ag2")


\* the vectors a deployment stores under a namespace, as a set of [id, values]
StoredIn(b, store, namespace) ==
    IF b = "pinecone"
    THEN {VectorItem(e.id, e.values) : e \in {x \in store.index : x.namespace = namespace}}
    ELSE {VectorItem(store.vector_chunks[n].vectorId, store.vector_chunks[n].embedding) :
             n \in {m \in 1..Len(store.vector_chunks) :
                       NamespaceOf(OwnerOf(store.vector_chunks[m].knowledgeBaseId)) = namespace}}

\* C17: deleteByIds(ids, namespace) leaves, in both backends, every vector of
\* another namespace unchanged, also when its id is in ids, and every vector
\* of the given namespace whose id is not in ids.
C17_DeleteByIdsFrame ==
    [][req'.kind = "deleteByIds" =>
         \A b \in Backends :
            /\ \A other \in Namespaces \ {req'.namespace} :
                  StoredIn(b, stores'[b], other) = StoredIn(b, stores[b], other)
            /\ {v \in StoredIn(b, stores'[b], req'.namespace) : v.id \notin req'.ids}
                  = {v \in StoredIn(b, stores[b], req'.namespace) : v.id \notin req'.ids}]_vars

\* the same frame for the remote index alone
C17_RemoteFrame ==
    [][req'.kind = "deleteByIds" =>
         /\ \A other \in Namespaces \ {req'.namespace} :
               StoredIn("pinecone", stores'["pinecone"], other) = StoredIn("pinecone", stores["pinecone"], other)
         /\ {v \in StoredIn("pinecone", stores'["pinecone"], req'.namespace) : v.id \notin req'.ids}
               = {v \in StoredIn("pinecone", stores["pinecone"], req'.namespace) : v.id \notin req'.ids}]_vars


\* the ids a query for the request's vector returns in deployment b
QueryIds(b, namespace) ==
    LET result == query(b, stores[b], knowledge_bases, req.vector, 5, namespace)
    IN  {result.value[i].id : i \in 1..Len(result.value)}
OutIds(b) == {out[b].value[i].id : i \in 1..Len(out[b].value)}

\* C18: in both backends an item is queryable in its namespace once
\* upsert(items, namespace) has returned and has one entry there, and a query
\* returns the same set of ids in both backends.
C18_Interchangeable ==
    /\ req.kind = "upsert" =>
          \A b \in Backends :
             /\ req.ids \subseteq QueryIds(b, req.namespace)
             /\ \A id \in req.ids :
                   Cardinality({v \in StoredIn(b, stores[b], req.namespace) : v.id = id}) = 1
    /\ req.kind = "query" => OutIds("postgres") = OutIds("pinecone")

\* what upsert promises holds in the remote index, where the entries of the
\* namespace have the dimension of the index
C18_RemoteUpsert ==
    (/\ req.kind = "upsert"
     /\ \A v \in StoredIn("pinecone", stores["pinecone"], req.namespace) :
           v.values.dimensions = req.vector.dimensions) =>
       /\ req.ids \subseteq QueryIds("pinecone", req.namespace)
       /\ \A id \in req.ids :
             Cardinality({v \in StoredIn("pinecone", stores["pinecone"], req.namespace) : v.id = id}) = 1


(***************************************************************************)
(* Claims about the request execute builds and echoes (SpecExecute).       *)
(***************************************************************************)
\* the header names of the stored integrations that contain
\* "authorization", "api-key" or "token" in any case
SensitiveKeys == {"Authorization", "X-Token"}

Succeeded == epc = "returned" /\ eResult.success
EchoedHeaders == eResult.request.headers
SentHeaders == eRequest.headers

\* C19: in the echoed request of a successful result a header whose name
\* contains authorization, api-key or token shows the first 3 characters,
\* "..." and the last 3 characters of a value longer than 6 characters and
\* "***" for any other value; every other header is echoed unchanged; and the
\* headers that were sent are the ones buildRequest made.
C19_MaskedEcho ==
    Succeeded =>
       /\ \A key \in HeaderKeys :
             LET value == SentHeaders[key]
             IN  IF value = AbsentValue THEN EchoedHeaders[key] = AbsentValue
                 ELSE IF key \notin SensitiveKeys THEN EchoedHeaders[key] = value
                 ELSE IF Len(value) > 6
                   THEN EchoedHeaders[key] = SubSeq(value, 1, 3) \o "..."
                                                \o SubSeq(value, Len(value) - 2, Len(value))
                 ELSE EchoedHeaders[key] = "***"
       /\ SentHeaders = buildRequest(ActionRow(eActionId), eInputs, secrets, env).request.headers

\* a successful result whose request had a sensitive header longer than 6
\* characters, one of 6 characters, and a header that is not sensitive
C19_Witness ==
    /\ Succeeded
    /\ \E key \in SensitiveKeys : SentHeaders[key] # AbsentValue /\ Len(SentHeaders[key]) > 6
    /\ \E key \in SensitiveKeys : Len(SentHeaders[key]) = 6
    /\ \E key \in HeaderKeys \ SensitiveKeys : SentHeaders[key] # AbsentValue


\* the request has been built from inputs that passed validation
Built == eRequest # NoRequest

\* the template the URL is made of
UrlTemplateOf(action) ==
    IF action.urlTemplate # NoTemplate THEN action.urlTemplate ELSE action.integration.url

\* what a tag shows for an input value
Shown(name) == escapeHtml(ToText(Prop(eInputs, name)))

\* the URL of each stored action, its tags replaced by the inputs
ExpectedUrl ==
    CASE eActionId = "a1" -> "https://api.example.com/weather?city=" \o Shown("city")
      [] eActionId = "a2" -> "https://x.io/" \o Shown("count")
      [] eActionId = "a3" -> "https://y.io/items"
      [] OTHER -> "https://api.example.com/ping/" \o Shown("city")

\* C20: the request URL is the action's urlTemplate rendered against the
\* inputs when the action has one, otherwise the integration's url rendered
\* against the inputs; it contains no {{...}} placeholder; and getWeather with
\* city "Paris" gives https://api.example.com/weather?city=Paris.
C20_ResolvedUrl ==
    Built =>
       /\ eRequest.url = MustacheRender(UrlTemplateOf(ActionRow(eActionId)), eInputs).out
       /\ eRequest.url = ExpectedUrl
       /\ ~Includes(eRequest.url, "{{")
       /\ ~Includes(eRequest.url, "}}")
       /\ (eActionId = "a1" /\ Prop(eInputs, "city") = JStr("Paris")) =>
             eRequest.url = "https://api.example.com/weather?city=Paris"

\* getWeather was built for Paris
C20_Witness ==
    /\ Built
    /\ eActionId = "a1"
    /\ Prop(eInputs, "city") = JStr("Paris")
    /\ eRequest.url = "https://api.example.com/weather?city=Paris"

\* a URL was built from the integration's url, and one from a template whose
\* tag has no input
C20_IntegrationUrl == Built /\ eActionId = "a2" /\ eRequest.url = "https://x.io/42"
C20_NoInput == Built /\ eActionId = "a4" /\ eRequest.url = "https://api.example.com/ping/"


(***************************************************************************)
(* Claims about parseToolCall (SpecParse).                                 *)
(***************************************************************************)
Parsed == cpc = "parsed"
JsonBlocks == {i \in 1..Len(req.content) : req.content[i].t = "fence" /\ req.content[i].lang = "json"}
FirstJsonBlock == req.content[CHOOSE i \in JsonBlocks : \A j \in JsonBlocks : i <= j].doc

\* the first json block parses to an object with a tool and inputs that are
\* there and not empty
WellFormedCall ==
    /\ JsonBlocks # {}
    /\ FirstJsonBlock.kind = "object"
    /\ Truthy(FirstJsonBlock.tool)
    /\ Truthy(FirstJsonBlock.inputs)

\* C21: parseToolCall returns the call {tool, inputs} of the first fenced
\* json block if and only if that block parses as JSON to an object with
\* non-empty tool and inputs; with no json block, a malformed first block, or
\* a parsed value without tool or inputs (a JSON null too) it returns none.
C21_FirstJsonBlock ==
    Parsed =>
       /\ response.toolCall.present <=> WellFormedCall
       /\ WellFormedCall => /\ response.toolCall.tool = FirstJsonBlock.tool
                            /\ response.toolCall.inputs = FirstJsonBlock.inputs
       /\ ~WellFormedCall => response.toolCall = NoToolCall
       /\ response.content = req.content

\* a call was taken from the first json block of a text that has a block of
\* another language before it and another json block behind it
C21_Witness ==
    /\ Parsed
    /\ Len(req.content) = 3
    /\ req.content[1].t = "fence" /\ req.content[1].lang = "js"
    /\ Cardinality(JsonBlocks) = 2
    /\ req.content[3].doc # req.content[2].doc
    /\ response.toolCall.present
    /\ response.toolCall.tool = req.content[2].doc.tool

\* nothing was taken from a text whose first json block is malformed and
\* whose second one holds a call
C21_MalformedFirst ==
    /\ Parsed
    /\ Len(req.content) = 2
    /\ req.content[1].doc = Malformed
    /\ req.content[2].doc = DocObj(JStr("ping"), InObj(NoFields))
    /\ req.content[2].lang = "json"
    /\ ~response.toolCall.present


(***************************************************************************)
(* Claims about the order of a chat turn (Spec).                           *)
(***************************************************************************)
\* the positions in the log of the provider calls and of the steps of execute
LlmAt == {p \in 1..Len(events) : events[p].e = "llm"}
ExecAt == {p \in 1..Len(events) :
              events[p].e \in {"execute", "findUnique", "validate", "secret", "built", "http", "sleep"}}
Executing == epc \in {"findUnique", "validate", "build", "http", "backoff"}

\* C22: a chat turn goes INIT, first completion, then either the answer or
\* the execution, the second completion and the answer: every step of execute
\* (its retry too) comes after the first completion has returned and before
\* the second is requested, the second is requested after the first has
\* returned and execute has ended, and once the turn has answered nothing
\* more happens.
C22_TurnOrder ==
    req.kind = "chat" =>
       /\ cpc \in {"loadAgent", "loadActions", "first"} => events = <<>> /\ epc = "idle"
       /\ cpc = "dispatch" => Cardinality(LlmAt) = 1 /\ ExecAt = {} /\ epc = "idle"
       /\ cpc = "exec" => Cardinality(LlmAt) = 1 /\ ExecCalls = 1
       /\ Cardinality(LlmAt) <= 2
       /\ \A p \in ExecAt : \E q \in LlmAt : q < p
       /\ Executing => cpc = "exec" /\ response # NoResponseYet
       /\ Cardinality(LlmAt) = 2 =>
             /\ ExecAt # {}
             /\ \A p \in ExecAt : \E q \in LlmAt : p < q
             /\ epc = "returned"
             /\ llmLog[2].messages[Len(llmLog[2].messages) - 1].content = llmLog[1].content
             /\ ~llmLog[1].threw
       /\ cpc = "done" => ~Executing /\ ~ENABLED Next

\* a turn whose execution retried once answered after the second completion
C22_Witness ==
    /\ ChatAnswered
    /\ Cardinality(LlmAt) = 2
    /\ Len(EventsOf("sleep")) = 1
    /\ HttpAttempts = 2

\* a turn ends without a second completion when execute raises
C22_RaisedEnd ==
    /\ req.kind = "chat" /\ cpc = "done"
    /\ epc = "raised"
    /\ Cardinality(LlmAt) = 1
    /\ sent.status = 500


\* the messages of the second provider call and its last, synthetic one
SecondMessages == llmLog[2].messages
Synthetic == SecondMessages[Len(SecondMessages)]

\* the second call's messages are the first call's, the assistant's first
\* content, and the synthetic user message
SecondMessageList ==
    /\ Len(SecondMessages) = Len(llmLog[1].messages) + 2
    /\ SubSeq(SecondMessages, 1, Len(llmLog[1].messages)) = llmLog[1].messages
    /\ SecondMessages[Len(SecondMessages) - 1] = [role |-> "assistant", content |-> llmLog[1].content]
    /\ Synthetic.role = "user"

\* C23: the synthetic user message of the second completion is the success
\* form (the action's data and the instruction to answer) whenever the
\* result has success = true, and the failure form naming the tool and its
\* error whenever it has success = false; the second call's messages are the
\* first call's, then the assistant's first content, then this message.
C23_MessageByResult ==
    (req.kind = "chat" /\ LlmCalls = 2) =>
       /\ SecondMessageList
       /\ Synthetic.content.tool = response.toolCall.tool.val
       /\ eResult.success =>
             /\ Synthetic.content.form = "success"
             /\ Synthetic.content.data = eResult.data
       /\ ~eResult.success =>
             /\ Synthetic.content.form = "failure"
             /\ Synthetic.content.error = eResult.error

\* the same, the success form being chosen for a result with success = true
\* that has data
C23_MessageByData ==
    (req.kind = "chat" /\ LlmCalls = 2) =>
       /\ SecondMessageList
       /\ Synthetic.content.tool = response.toolCall.tool.val
       /\ (eResult.success /\ eResult.data # "") =>
             /\ Synthetic.content.form = "success"
             /\ Synthetic.content.data = eResult.data
       /\ ~(eResult.success /\ eResult.data # "") =>
             /\ Synthetic.content.form = "failure"
             /\ Synthetic.content.error = eResult.error

\* a result with success = true and an empty body was worded as a failure
C23_EmptyData ==
    /\ req.kind = "chat" /\ LlmCalls = 2
    /\ eResult.success /\ eResult.status = 204
    /\ Synthetic.content.form = "failure"


(***************************************************************************)
(* Claims about secrets across executions (SpecSecrets).                   *)
(***************************************************************************)
\* what a secret reference stands for now: the stored value, else the
\* environment's, else nothing
CurrentSecret(name) ==
    IF secrets[name] # AbsentValue THEN decrypt(secrets[name])
    ELSE IF env[name] \notin {AbsentValue, ""} THEN env[name]
    ELSE AbsentValue

\* the secret-store lookups of the execution in progress
LastExecuteAt == CHOOSE p \in 1..Len(events) :
                    events[p].e = "execute" /\ \A q \in (p + 1)..Len(events) : events[q].e # "execute"
LookupsNow ==
    LET tail == SubSeq(events, LastExecuteAt, Len(events))
        found == SelectSeq(tail, LAMBDA ev : ev.e = "secret")
    IN  [i \in 1..Len(found) |-> found[i].a]

\* no row was written since the execution in progress began
InExecution == cpc = "apiWait" /\ epc \in {"http", "backoff", "returned"}
BuiltNow == InExecution /\ eRequest # NoRequest

\* C24: every execution looks each secret-pattern auth entry up afresh: the
\* request it builds carries the value the store (else the environment) holds
\* at that time, also when the value was rewritten or removed since an
\* earlier execution, and it fails with 'Secret not found' when neither has
\* one.
C24_FreshSecrets ==
    /\ BuiltNow =>
          /\ eRequest.headers["Authorization"] = CurrentSecret("API_TOKEN")
          /\ eActionId = "a1" => LookupsNow = <<"API_TOKEN">>
          /\ eActionId = "a2" => /\ LookupsNow = <<"API_TOKEN", "DB_KEY">>
                                 /\ eRequest.params["key"] = CurrentSecret("DB_KEY")
    /\ (InExecution /\ epc = "returned" /\ eRequest = NoRequest) =>
          /\ eResult.error.msg = "Secret not found"
          /\ CurrentSecret(eResult.error.arg) = AbsentValue
          /\ LookupsNow # <<>>
          /\ LookupsNow[Len(LookupsNow)] = eResult.error.arg

\* a second execution of an action carries the rewritten value after the
\* first one carried the value the secret had before
C24_Witness ==
    /\ BuiltNow
    /\ Len(EventsOf("execute")) = 2
    /\ EventsOf("execute")[1].a = eActionId
    /\ EventsOf("secretSet") = <<Event("secretSet", "API_TOKEN", 0)>>
    /\ Len(EventsOf("http")) >= 1
    /\ sent.result.success
    /\ sent.result.request.headers["Authorization"] = mask(SecretValue)
    /\ eRequest.headers["Authorization"] = RotatedValue

\* a second execution fails after the secret was removed, and one falls back
\* to the environment
C24_Removed ==
    /\ InExecution /\ epc = "returned"
    /\ Len(EventsOf("execute")) = 2
    /\ sent.result.success
    /\ eResult.error.msg = "Secret not found"
C24_Fallback ==
    /\ BuiltNow
    /\ Len(EventsOf("execute")) = 2
    /\ sent.result.success
    /\ eRequest.headers["Authorization"] = EnvValue


(***************************************************************************)
(* Claims about the chunk rows of a knowledge base (SpecKB).               *)
(***************************************************************************)
\* the positions of the rows of a knowledge base in table vector_chunks
RowsOfKb(kbId) ==
    {n \in 1..Len(stores[Backend].vector_chunks) :
        stores[Backend].vector_chunks[n].knowledgeBaseId = kbId}
ChunkIndexes(kbId) == {stores[Backend].vector_chunks[n].chunkIndex : n \in RowsOfKb(kbId)}

\* C25: in every state a knowledge base whose status is indexed has one chunk
\* row for each chunkIndex 0..chunkCount-1 and no other, and chunkCount is the
\* number of chunks chunkText makes of its text.
C25_IndexedChunks ==
    \A kbId \in KbIds :
       knowledge_bases[kbId].status = "indexed" =>
          /\ ChunkIndexes(kbId) = 0..(knowledge_bases[kbId].chunkCount - 1)
          /\ Cardinality(RowsOfKb(kbId)) = knowledge_bases[kbId].chunkCount
          /\ knowledge_bases[kbId].chunkCount = Len(chunkText(knowledge_bases[kbId].file))

\* a knowledge base of two chunks is indexed by a run that followed a failed
\* run for it
C25_Witness ==
    \E kbId \in KbIds :
       /\ knowledge_bases[kbId].status = "indexed"
       /\ knowledge_bases[kbId].chunkCount = 2
       /\ Cardinality(RowsOfKb(kbId)) = 2
       /\ Len(SelectSeq(events, LAMBDA ev : ev.e = "build" /\ ev.a = kbId)) = 2
       /\ \E n \in 1..Len(events) : events[n] = Event("failed", kbId, 0)


(***************************************************************************)
(* Two ingestion runs of one knowledge base.                               *)
(***************************************************************************)
BothFinished == \A r \in RunIds : kRuns[r].pc = "done"
RunCompleted(r) == kRuns[r].pc = "done" /\ kRuns[r].error = ""
RunWroteEveryChunk(r) ==
    /\ RunCompleted(r)
    /\ \A i \in 0..(Len(kRuns[r].chunks) - 1) :
          chunkExists(stores[Backend].vector_chunks, kRuns[r].kbId, i)
FailedAfterIndexed ==
    \E p, q \in 1..Len(events) :
       /\ p < q
       /\ events[p].e = "indexed"
       /\ events[q].e = "failed"
       /\ events[p].a = events[q].a

\* C26: once two concurrent ingestion runs of one knowledge base have both
\* finished, the status is indexed if a run wrote every chunk row and
\* completed, it is failed only if no run completed, and no failing run has
\* overwritten the indexed status written by the run that succeeded.
C26_RaceStatus ==
    BothFinished =>
       /\ (\E r \in RunIds : RunWroteEveryChunk(r)) => knowledge_bases["k1"].status = "indexed"
       /\ knowledge_bases["k1"].status = "failed" => \A r \in RunIds : ~RunCompleted(r)
       /\ ~FailedAfterIndexed

\* the race: one run completed with every row written, the other hit the
\* unique index, and the knowledge base is left failed
C26_Witness ==
    /\ BothFinished
    /\ \E r \in RunIds : RunWroteEveryChunk(r) /\ kRuns[r].chunks # <<>>
    /\ \E r \in RunIds : kRuns[r].error = "Unique constraint failed"

\* the status never claims more than is stored, also under the race
C26_IndexedHasRows ==
    (BothFinished /\ knowledge_bases["k1"].status = "indexed") =>
       \A i \in 0..(knowledge_bases["k1"].chunkCount - 1) :
          chunkExists(stores[Backend].vector_chunks, "k1", i)

\* when only one run reaches the rows first and the other fails before the
\* first one writes indexed, the status ends indexed
C26_IndexedLast ==
    (BothFinished /\ (\E r \in RunIds : RunCompleted(r)) /\ ~FailedAfterIndexed)
       => knowledge_bases["k1"].status = "indexed"


(***************************************************************************)
(* Retrying a failed ingestion (SpecKB).                                   *)
(***************************************************************************)
\* the chunk rows of the knowledge base that the run being served found
LeftoverRows(kbId) == Cardinality(RowsOfKb(kbId)) - kRun.i

\* an earlier run for the knowledge base wrote failed, and none wrote indexed
FailedBefore(kbId) ==
    /\ \E n \in 1..LastBuild : events[n] = Event("failed", kbId, 0)
    /\ \A n \in 1..LastBuild : events[n] # Event("indexed", kbId, 0)

\* no step of the run being served failed on its own: the file was read, the
\* embeddings were made, the upsert and the status updates went through
RunUnhindered == kRun.error \in {"", "Unique constraint failed"}

\* C27: a run for a knowledge base that an earlier failed run left with some
\* chunk rows, in which the file read, the embeddings and the upsert all
\* succeed, ends with status indexed.
C27_RetryIndexes ==
    \A kbId \in KbIds :
       (/\ cpc = "done"
        /\ req.kind = "build"
        /\ kRun.kbId = kbId
        /\ Exists(kbId)
        /\ FailedBefore(kbId)
        /\ LeftoverRows(kbId) > 0
        /\ RunUnhindered) => knowledge_bases[kbId].status = "indexed"

\* the retry of a run that failed after its first chunk row ends failed at
\* the unique index
C27_Witness ==
    \E kbId \in KbIds :
       /\ cpc = "done"
       /\ req.kind = "build"
       /\ kRun.kbId = kbId
       /\ FailedBefore(kbId)
       /\ LeftoverRows(kbId) = 1
       /\ kRun.error = "Unique constraint failed"
       /\ knowledge_bases[kbId].status = "failed"

\* a retry is only possible when the failed run left no row
C27_RetryAfterNoRows ==
    \A kbId \in KbIds :
       (/\ cpc = "done"
        /\ req.kind = "build"
        /\ kRun.kbId = kbId
        /\ Exists(kbId)
        /\ FailedBefore(kbId)
        /\ LeftoverRows(kbId) = 0
        /\ kRun.error = ""
        /\ sent.status = 200) => knowledge_bases[kbId].status = "indexed"


(***************************************************************************)
(* The dimension of the stored and of the query embeddings (SpecRetrieval).*)
(***************************************************************************)
\* the embeddings ingestion stored for the knowledge bases of an agent
StoredEmbeddings(agentId) ==
    {stores[Backend].vector_chunks[n].embedding :
        n \in {m \in 1..Len(stores[Backend].vector_chunks) :
                  knowledge_bases[stores[Backend].vector_chunks[m].knowledgeBaseId].agentId = agentId}}

SearchServed == req.kind = "search" /\ cpc = "done"
LengthError == "Vectors must have the same length"

\* C28: the embeddings ingestion stored for an agent all have one dimension,
\* whatever mix of vendor answers and mock fallbacks made them, and a search
\* never fails with 'Vectors must have the same length'.
C28_OneDimension ==
    /\ \A agentId \in AgentIds :
          \A a, b \in StoredEmbeddings(agentId) : a.dimensions = b.dimensions
    /\ SearchServed => ~(out.raised /\ out.error = LengthError)

\* a search was answered 500 with that error, a chunk of the agent being
\* stored with the mock fallback
C28_Witness ==
    /\ SearchServed
    /\ sent.status = 500
    /\ out.error = LengthError
    /\ \E a \in StoredEmbeddings(req.agentId) : a.seed # NoSeed


(***************************************************************************)
(* An action deleted while a turn is about to execute it (SpecTurnDelete). *)
(***************************************************************************)
\* the action execute was called for was in the catalog of the turn and was
\* deleted before execute looked it up, and the lookup itself went through
DeletedBeforeLookup ==
    /\ req.kind = "chat"
    /\ eActionId \in catalog
    /\ epc # "raised"
    /\ \E p, q \in 1..Len(events) :
          /\ p < q
          /\ events[p] = Event("deleteAction", eActionId, 0)
          /\ events[q] = Event("findUnique", eActionId, 0)

\* C29: when the action named by the first completion's tool call is deleted
\* after the catalog was loaded and before execute looks it up, execute
\* returns success = false with 'Action not found' and sends no HTTP request,
\* the second completion is requested with the failure message, and the turn
\* ends answered with that result in toolResults.
C29_DeletedAction ==
    DeletedBeforeLookup =>
       /\ epc = "returned"
       /\ eResult = ActionNotFound
       /\ HttpAttempts = 0
       /\ cpc = "done" =>
             /\ LlmCalls = 2
             /\ Synthetic.content.form = "failure"
             /\ Synthetic.content.error.msg = "Action not found"
             /\ llmLog[2].tools = <<>>
             /\ sent.status = 500 => llmLog[2].threw
             /\ sent.status = 200 =>
                   /\ sent.message.hasToolResults
                   /\ sent.message.toolResults = <<ActionNotFound>>
                   /\ sent.message.content = llmLog[2].content

\* a turn whose action was deleted under it is answered 200
C29_Witness ==
    /\ DeletedBeforeLookup
    /\ ChatAnswered
    /\ sent.message.toolResults = <<ActionNotFound>>
    /\ LlmCalls = 2

\* deleted after the lookup, the action is still executed from the row the
\* lookup returned
C29_DeletedAfterLookup ==
    /\ ChatAnswered
    /\ HttpAttempts >= 1
    /\ \E p, q \in 1..Len(events) :
          /\ p < q
          /\ events[p] = Event("findUnique", eActionId, 0)
          /\ events[q] = Event("deleteAction", eActionId, 0)


(***************************************************************************)
(* What is left of a deleted knowledge base (SpecVector).                  *)
(***************************************************************************)
VectorIdsOfKb(kbId) == {vectorIdOf(kbId, i) : i \in 0..2} \cup {kbId \o "-legacy"}
DeletedKbs == {kbId \in KbIds : knowledge_bases[kbId] = NoKb}
DeletedIds == UNION {VectorIdsOfKb(kbId) : kbId \in DeletedKbs}

\* the rows with an embedding of the knowledge bases the agent still has
RemainingChunks(b, agentId) ==
    {n \in 1..Len(stores[b].vector_chunks) :
        /\ knowledge_bases[stores[b].vector_chunks[n].knowledgeBaseId] # NoKb
        /\ knowledge_bases[stores[b].vector_chunks[n].knowledgeBaseId].agentId = agentId
        /\ stores[b].vector_chunks[n].embedding # NoEmbedding}

\* in deployment b nothing of a deleted knowledge base is stored or returned
NothingLeft(b) ==
    /\ \A kbId \in DeletedKbs :
          \A v \in StoredIn(b, stores[b], NamespaceOf(OwnerOf(kbId))) : v.id \notin VectorIdsOfKb(kbId)
    /\ req.kind = "query" => OutIds(b) \cap DeletedIds = {}
    /\ (req.kind = "search" /\ ~out[b].raised) =>
          Len(out[b].value) = Min(5, Cardinality(RemainingChunks(b, RequestAgent)))

\* C30: once a knowledge base has been deleted through DELETE /kb/:id, no
\* vector of it is left in its agent's namespace in either backend, no query
\* returns an id of it, and a search returns min(topK, remaining chunks)
\* results.
C30_DeletedKbGone == \A b \in Backends : NothingLeft(b)

\* the deleted knowledge base's vectors are still in the remote index and a
\* query of its agent's namespace returns one of their ids
C30_Witness ==
    /\ req.kind = "query"
    /\ "k1" \in DeletedKbs
    /\ OutIds("pinecone") \cap VectorIdsOfKb("k1") # {}
    /\ OutIds("postgres") = {}

\* without the remote index the cascade removes every row, and with them
\* every vector, of the deleted knowledge base
C30_ScanBackend == NothingLeft("postgres")

\* a knowledge base that had three chunk rows has been deleted
C30_DeletedAfterIngest ==
    /\ req.kind = "deleteKb"
    /\ DeletedKbs # {}
    /\ \E kbId \in DeletedKbs :
          Cardinality({e \in stores["pinecone"].index : e.id \in VectorIdsOfKb(kbId)}) >= 2
    /\ \A n \in 1..Len(stores["postgres"].vector_chunks) :
          stores["postgres"].vector_chunks[n].knowledgeBaseId \notin DeletedKbs

====
